---- MODULE Spec2Model ----
(***************************************************************************)
(* network-insight: the resilient resolution layer.                        *)
(*                                                                         *)
(* The managers (IpManager, LocationManager, NetworkManager) each own a    *)
(* TTL cache (a Map of CacheEntry) and read one configuration object.      *)
(* Asynchronous calls run as cooperatively scheduled tasks: a task runs    *)
(* without interruption up to its next await, so every action below is the *)
(* code between two awaits.  Strings are sequences of one-character        *)
(* strings; JavaScript values are tagged records.                          *)
(***************************************************************************)
EXTENDS Integers, Sequences, FiniteSets, TLC

VARIABLES
    mgrs,         \* the manager objects that have been constructed
    config,       \* the NetworkInfoConfig the managers hold (cache.enabled, cache.ttl)
    netAvailable, \* whether require('net') succeeds in IpManager.isValidIp
    now,          \* Date.now()
    ticks,        \* number of clock advances so far
    cache,        \* cache[m]: the private Map of manager m, key -> CacheEntry
    calls,        \* calls[c]: the asynchronous call task c is running or has settled
    lastOp,       \* the last synchronous operation and what it returned
    rt,           \* the state of one retry(operation, maxRetries, delayMs) call
    svc,          \* the aggregate call of NetworkService in progress, or its result
    heap          \* the NetworkService instances, their managers and the singleton

vars == <<mgrs, config, netAvailable, now, ticks, cache, calls, lastOp, rt, svc, heap>>

(***************************************************************************)
(* Bounds of the model.                                                    *)
(***************************************************************************)
MaxCalls == 2
MaxTicks == 2
MaxRetryArg == 3
MaxOctets == 5
MaxHextets == 9
MaxServices == 2
MaxBundles == 3

(***************************************************************************)
(* JavaScript values.                                                      *)
(***************************************************************************)
Undefined == [t |-> "undefined"]
Null == [t |-> "null"]
Str(s) == [t |-> "string", s |-> s]
Num(n) == [t |-> "number", n |-> n]
Bool(b) == [t |-> "boolean", b |-> b]

IsStr(v) == v.t = "string"

\* ToBoolean: undefined, null, false, 0 and the empty string are falsy.
Truthy(v) ==
    CASE v.t = "undefined" -> FALSE
      [] v.t = "null" -> FALSE
      [] v.t = "string" -> v.s # <<>>
      [] v.t = "number" -> v.n # 0
      [] v.t = "boolean" -> v.b
      [] OTHER -> TRUE

\* Property read obj.f: undefined when the object has no such property.
Get(obj, f) == IF obj.t = "object" /\ f \in DOMAIN obj THEN obj[f] ELSE Undefined

(***************************************************************************)
(* Strings.                                                                *)
(***************************************************************************)
Digits == {"0", "1", "2", "3", "4", "5", "6", "7", "8", "9"}
HexDigits == Digits \cup {"a", "b", "c", "d", "e", "f", "A", "B", "C", "D", "E", "F"}
Whitespace == {" ", "\n", "\t", "\r"}

RECURSIVE TrimStart(_)
TrimStart(s) ==
    IF s # <<>> /\ Head(s) \in Whitespace THEN TrimStart(Tail(s)) ELSE s

RECURSIVE TrimEnd(_)
TrimEnd(s) ==
    IF s # <<>> /\ s[Len(s)] \in Whitespace THEN TrimEnd(SubSeq(s, 1, Len(s) - 1)) ELSE s

\* String.prototype.trim
Trim(s) == TrimEnd(TrimStart(s))

\* String.prototype.split(sep) for a one-character separator.
RECURSIVE SplitFrom(_, _, _)
SplitFrom(s, sep, cur) ==
    IF s = <<>> THEN <<cur>>
    ELSE IF Head(s) = sep THEN <<cur>> \o SplitFrom(Tail(s), sep, <<>>)
    ELSE SplitFrom(Tail(s), sep, Append(cur, Head(s)))

Split(s, sep) == SplitFrom(s, sep, <<>>)

AllIn(s, alphabet) == \A i \in 1..Len(s) : s[i] \in alphabet

DigitValue(ch) ==
    CASE ch = "0" -> 0 [] ch = "1" -> 1 [] ch = "2" -> 2 [] ch = "3" -> 3
      [] ch = "4" -> 4 [] ch = "5" -> 5 [] ch = "6" -> 6 [] ch = "7" -> 7
      [] ch = "8" -> 8 [] ch = "9" -> 9

DigitChar(d) ==
    CASE d = 0 -> "0" [] d = 1 -> "1" [] d = 2 -> "2" [] d = 3 -> "3"
      [] d = 4 -> "4" [] d = 5 -> "5" [] d = 6 -> "6" [] d = 7 -> "7"
      [] d = 8 -> "8" [] d = 9 -> "9"

\* parseInt(s, 10) of a string of decimal digits.
RECURSIVE ParseInt(_)
ParseInt(s) ==
    IF s = <<>> THEN 0
    ELSE 10 * ParseInt(SubSeq(s, 1, Len(s) - 1)) + DigitValue(s[Len(s)])

\* Number.prototype.toString of a natural number.
RECURSIVE NumToString(_)
NumToString(n) ==
    IF n < 10 THEN <<DigitChar(n)>>
    ELSE Append(NumToString(n \div 10), DigitChar(n % 10))

(***************************************************************************)
(* IP literal validation.                                                  *)
(***************************************************************************)
\* One group of /\d{1,3}/.
IsDigitGroup(g) == Len(g) \in 1..3 /\ AllIn(g, Digits)

\* One group of /[0-9a-fA-F]{1,4}/.
IsHexGroup(g) == Len(g) \in 1..4 /\ AllIn(g, HexDigits)

Count(s, ch) == Cardinality({i \in 1..Len(s) : s[i] = ch})

\* (ip.match(/::/g) || []).length: the non-overlapping matches, left to right.
RECURSIVE CountDoubleColon(_)
CountDoubleColon(s) ==
    IF Len(s) < 2 THEN 0
    ELSE IF s[1] = ":" /\ s[2] = ":" THEN 1 + CountDoubleColon(SubSeq(s, 3, Len(s)))
    ELSE CountDoubleColon(Tail(s))

\* Mutant: the octet text is not compared with the decimal string of its value.
fallbackIpValidation_anyText(ip) ==
    \E octets \in {Split(ip, ".")}, parts \in {Split(ip, ":")} :
    LET ipv4Regex == Len(octets) = 4 /\ \A i \in 1..4 : IsDigitGroup(octets[i])
        ipv6Regex == ip # <<>> /\ AllIn(ip, HexDigits \cup {":"})
        colonCount == Count(ip, ":")
    IN  IF ipv4Regex
        THEN \A i \in 1..4 :
                \E num \in {ParseInt(octets[i])} :
                    num >= 0 /\ num <= 255
        ELSE IF ipv6Regex /\ colonCount > 0
        THEN IF colonCount < 2 \/ colonCount > 7 THEN FALSE
             ELSE IF CountDoubleColon(ip) > 1 THEN FALSE
             ELSE \A i \in 1..Len(parts) : parts[i] = <<>> \/ IsHexGroup(parts[i])
        ELSE FALSE

\* IpManager.fallbackIpValidation, on a string.  The locals octets, parts and
\* num are bound by a quantifier over a singleton: each is computed once.
fallbackIpValidation(ip) ==
    \E octets \in {Split(ip, ".")}, parts \in {Split(ip, ":")} :
    LET ipv4Regex == Len(octets) = 4 /\ \A i \in 1..4 : IsDigitGroup(octets[i])
        ipv6Regex == ip # <<>> /\ AllIn(ip, HexDigits \cup {":"})
        colonCount == Count(ip, ":")
    IN  IF ipv4Regex
        THEN \A i \in 1..4 :
                \E num \in {ParseInt(octets[i])} :
                    num >= 0 /\ num <= 255 /\ octets[i] = NumToString(num)
        ELSE IF ipv6Regex /\ colonCount > 0
        THEN IF colonCount < 2 \/ colonCount > 7 THEN FALSE
             ELSE IF CountDoubleColon(ip) > 1 THEN FALSE
             ELSE \A i \in 1..Len(parts) : parts[i] = <<>> \/ IsHexGroup(parts[i])
        ELSE FALSE

\* The colon-separated groups of one side of a "::" (none for the empty side).
GroupsOf(side) == IF side = <<>> THEN <<>> ELSE Split(side, ":")

\* net.isIP of Node.js, for dotted-decimal IPv4 and colon-hex IPv6 text
\* (no embedded IPv4 tail, no zone index): 4, 6, or 0 when it is neither.
isIP(ip) ==
    LET v4 == \E octets \in {Split(ip, ".")} :
              /\ Len(octets) = 4
              /\ \A i \in 1..4 :
                    \E octet \in {octets[i]} :
                        /\ IsDigitGroup(octet)
                        /\ ParseInt(octet) <= 255
                        /\ octet = NumToString(ParseInt(octet))
        full == \E groups \in {Split(ip, ":")} :
                    Len(groups) = 8 /\ \A i \in 1..8 : IsHexGroup(groups[i])
        cuts == {i \in 1..(Len(ip) - 1) : ip[i] = ":" /\ ip[i + 1] = ":"}
        compressed ==
            /\ Cardinality(cuts) = 1
            /\ \E i \in cuts :
               \E left \in {GroupsOf(SubSeq(ip, 1, i - 1))},
                  right \in {GroupsOf(SubSeq(ip, i + 2, Len(ip)))} :
                   /\ Len(left) + Len(right) <= 7
                   /\ \A k \in 1..Len(left) : IsHexGroup(left[k])
                   /\ \A k \in 1..Len(right) : IsHexGroup(right[k])
    IN  IF v4 THEN 4 ELSE IF full \/ compressed THEN 6 ELSE 0

\* IpManager.isValidIp: net.isIP, or the manual validation when the net
\* module cannot be loaded.  A value that is not a string is no address.
isValidIp(v, net) ==
    IF ~IsStr(v) THEN FALSE
    ELSE \E ip \in {v.s} :
            IF net THEN isIP(ip) # 0 ELSE fallbackIpValidation(ip)

\* LocationManager.isValidIp: the two regular expressions.
LocationManager_isValidIp(v) ==
    IF ~IsStr(v) THEN FALSE
    ELSE \E dotted \in {Split(v.s, ".")}, colons \in {Split(v.s, ":")} :
         LET ipv4Regex == Len(dotted) = 4 /\ \A i \in 1..4 : IsDigitGroup(dotted[i])
             ipv6Regex == Len(colons) = 8 /\ \A i \in 1..8 : IsHexGroup(colons[i])
         IN  ipv4Regex \/ ipv6Regex

\* LocationManager.isValidLocationData: the duck-typed check of a payload.
isValidLocationData(data) ==
    /\ Truthy(data)
    /\ Get(data, "ip").t = "string"
    /\ Get(data, "country_name").t = "string"
    /\ Get(data, "latitude").t = "number"
    /\ Get(data, "longitude").t = "number"

(***************************************************************************)
(* The TTL cache of a manager: a Map from key to CacheEntry.               *)
(***************************************************************************)
EmptyMap == [k \in {} |-> Null]

MapHas(map, key) == key \in DOMAIN map

MapSet(map, key, entry) ==
    [k \in (DOMAIN map) \cup {key} |-> IF k = key THEN entry ELSE map[k]]

MapDelete(map, key) == [k \in (DOMAIN map) \ {key} |-> map[k]]

\* Mutant: an entry aged exactly its ttl is treated as expired.
getCached_strict(cfg, map, key, t) ==
    IF ~cfg.cache.enabled THEN [value |-> Null, cache |-> map]
    ELSE IF ~MapHas(map, key) THEN [value |-> Null, cache |-> map]
    ELSE IF t - map[key].timestamp >= map[key].ttl
         THEN [value |-> Null, cache |-> MapDelete(map, key)]
    ELSE [value |-> map[key].data, cache |-> map]

\* Mutant: entries never expire.
getCached_noExpiry(cfg, map, key, t) ==
    IF ~cfg.cache.enabled THEN [value |-> Null, cache |-> map]
    ELSE IF ~MapHas(map, key) THEN [value |-> Null, cache |-> map]
    ELSE [value |-> map[key].data, cache |-> map]

\* Mutant: an expired entry is reported absent but left in the Map.
getCached_noDelete(cfg, map, key, t) ==
    IF ~cfg.cache.enabled THEN [value |-> Null, cache |-> map]
    ELSE IF ~MapHas(map, key) THEN [value |-> Null, cache |-> map]
    ELSE IF t - map[key].timestamp > map[key].ttl
         THEN [value |-> Null, cache |-> map]
    ELSE [value |-> map[key].data, cache |-> map]

\* Mutant: a hit renews the timestamp of the entry.
getCached_touch(cfg, map, key, t) ==
    IF ~cfg.cache.enabled THEN [value |-> Null, cache |-> map]
    ELSE IF ~MapHas(map, key) THEN [value |-> Null, cache |-> map]
    ELSE IF t - map[key].timestamp > map[key].ttl
         THEN [value |-> Null, cache |-> MapDelete(map, key)]
    ELSE [value |-> map[key].data,
          cache |-> [map EXCEPT ![key] = [@ EXCEPT !.timestamp = t]]]

\* getCached(key) at time t under configuration cfg: the value returned and
\* the Map afterwards (an expired entry is deleted by the lookup).
getCached(cfg, map, key, t) ==
    IF ~cfg.cache.enabled THEN [value |-> Null, cache |-> map]
    ELSE IF ~MapHas(map, key) THEN [value |-> Null, cache |-> map]
    ELSE IF t - map[key].timestamp > map[key].ttl
         THEN [value |-> Null, cache |-> MapDelete(map, key)]
    ELSE [value |-> map[key].data, cache |-> map]

\* Mutant: the value is stored whether or not caching is enabled.
setCached_always(cfg, map, key, data, ttl, t) ==
    MapSet(map, key,
           [data |-> data,
            timestamp |-> t,
            ttl |-> IF Truthy(ttl) THEN ttl.n ELSE cfg.cache.ttl])

\* setCached(key, data, ttl) at time t: the Map afterwards.
setCached(cfg, map, key, data, ttl, t) ==
    IF ~cfg.cache.enabled THEN map
    ELSE MapSet(map, key,
                [data |-> data,
                 timestamp |-> t,
                 ttl |-> IF Truthy(ttl) THEN ttl.n ELSE cfg.cache.ttl])

\* Mutant: clearing a key that has no entry clears everything.
clearCache_flush(map, key) ==
    IF Truthy(key) /\ MapHas(map, key.s) THEN MapDelete(map, key.s) ELSE EmptyMap

\* clearCache(key): one entry, or every entry when key is falsy.
clearCache(map, key) ==
    IF Truthy(key) THEN MapDelete(map, key.s) ELSE EmptyMap

(***************************************************************************)
(* Managers, keys, providers and the answers the outside world can give.   *)
(***************************************************************************)
Managers == {"IpManager", "LocationManager", "NetworkManager"}
Calls == 1..MaxCalls

\* Literal text of the source is written as one element of the string.
PublicIpKey == <<"public-ip">>
\* Mutant: every address shares one key.
LocationKey_shared(ip) == <<"location-">>
LocationKey(ip) == <<"location-">> \o ip
InterfacesKey == <<"network-interfaces">>

IpProviders ==
    << "https://api.ipify.org?format=json",
       "https://api64.ipify.org?format=json",
       "https://icanhazip.com" >>

LocProviders == << "https://ipapi.co", "https://ipwho.is", "https://ipinfo.io" >>

IpLookupUrl == "https://api.ipify.org?format=json"

InterfacesTtl == 60000

CacheTtlValues == {1}

\* The clock advances by a millisecond, or by the lifetime of the interfaces
\* entry where there is one.
TickSteps(ms) == IF "NetworkManager" \in ms THEN {1, InterfacesTtl} ELSE {1}

IpA == <<"1", "0", ".", "0", ".", "0", ".", "1">>
IpB == <<"1", "0", ".", "0", ".", "0", ".", "2">>
IpOver == <<"2", "5", "6", ".", "1", ".", "1", ".", "1">>
NotAnIp == <<"n", "o">>

Object(fields) == [t |-> "object"] @@ fields

\* axios rejects with the error of the transport (or of the timeout).
Rejected == [status |-> "rejected", message |-> "Provider failed"]
Resolved(data) == [status |-> "resolved", data |-> data]
NoResponse == [status |-> "none"]

\* What a public-address provider can answer: a transport error or timeout,
\* a text body, a JSON body with or without an ip property, an empty body.
IpResponses ==
    { Rejected,
      Resolved(Str(Append(IpA, "\n"))),
      Resolved(Object([ip |-> Str(IpB)])),
      Resolved(Object([ip |-> Str(IpOver)])),
      Resolved(Object([origin |-> Str(IpA)])) }

LocationData(ip, country) ==
    Object([ip |-> Str(ip), country_name |-> Str(country),
            latitude |-> Num(1), longitude |-> Num(2)])

\* The public address of the machine, which the lookup and a geolocation
\* request without an address resolve.
PublicAddress == IpB

\* What a geolocation provider can answer to a request for address ip
\* (undefined: the requester's own address): a transport error or timeout,
\* the location of that address, or a payload that lacks required fields.
LocResponses(ip) ==
    LET asked == IF IsStr(ip) THEN ip.s ELSE PublicAddress
    IN  { Rejected,
          Resolved(LocationData(asked, <<"X">>)),
          Resolved(Object([ip |-> Str(asked), country_name |-> Str(<<"X">>)])) }

\* What the public-address lookup of LocationManager can answer.
LookupResponses ==
    { Rejected,
      Resolved(Object([ip |-> Str(PublicAddress)])),
      Resolved(Object([origin |-> Str(PublicAddress)])),
      Resolved(Null) }

\* The arguments callers pass to getLocation(ip?) and clearCache(key?).
LocationArgs == {Undefined, Str(IpA), Str(NotAnIp)}

ClearArgs(m) ==
    {Undefined, Str(<<>>)} \cup
    ( CASE m = "IpManager" -> {Str(PublicIpKey)}
        [] m = "LocationManager" -> {Str(LocationKey(IpA)), Str(LocationKey(PublicAddress))}
        [] m = "NetworkManager" -> {Str(InterfacesKey)} )

Ok(v) == [ok |-> TRUE, value |-> v]
Err(msg, arg) == [ok |-> FALSE, error |-> msg, arg |-> arg]
NoResult == [ok |-> FALSE, error |-> "", arg |-> Undefined]

AllIpFailed == Err("All IP service providers failed", Undefined)
AllLocFailed == Err("All geolocation providers failed", Undefined)
InvalidIp(ip) == Err("Invalid IP address: ", ip)
LookupFailed == Err("Failed to get public IP for location lookup", Undefined)

\* What a cache lookup of key meets in the Map at time t: the data and ttl
\* of the entry (if any), and its age.
NoEntry == [data |-> Undefined, ttl |-> 0]
Seen(map, key) ==
    IF MapHas(map, key) THEN [data |-> map[key].data, ttl |-> map[key].ttl] ELSE NoEntry
Age(map, key, t) == IF MapHas(map, key) THEN t - map[key].timestamp ELSE -1

\* A task that has made no call yet.  seen, age and kept record the cache
\* lookup of the call: the entry it met, that entry's age, and whether the
\* key was still in the Map after the lookup; lookupResp is the answer to the
\* public-address request of getLocation(), resp the last provider's answer.
Idle ==
    [ pc |-> "idle", op |-> "none", param |-> Undefined, target |-> Undefined,
      idx |-> 0, contacted |-> <<>>, lookup |-> FALSE, lookupResp |-> NoResponse,
      resp |-> NoResponse, result |-> NoResult, seen |-> NoEntry, age |-> -1, kept |-> FALSE ]

Settled == {"idle", "done", "failed"}

Request(url, ip) == [url |-> url, ip |-> ip]

NoOp == [op |-> "none"]

Thrown(v) == [ok |-> FALSE, thrown |-> v]

\* A retry(operation, maxRetries, delayMs) call that has not begun: attempt is
\* the loop variable, outcomes the settled invocations of operation in order,
\* invocations their number including the pending one, delays the waits made.
RetryCall(maxRetries, delayMs) ==
    [ pc |-> "idle", maxRetries |-> maxRetries, delayMs |-> delayMs, attempt |-> 0,
      invocations |-> 0, outcomes |-> <<>>, delays |-> <<>>,
      lastError |-> Undefined, result |-> NoResult ]

RetryIdle == RetryCall(0, 0)

\* No aggregate call of the service has been made.
SvcIdle == [pc |-> "idle", op |-> "none"]

\* No NetworkService has been constructed; no call runs on a manager of one.
HeapEmpty ==
    [services |-> <<>>, bundles |-> <<>>, singleton |-> 0, bound |-> [c \in Calls |-> 0],
     late |-> {}]

(***************************************************************************)
(* IpManager.getPublicIp                                                   *)
(***************************************************************************)
\* Lines 37-45: the address a response body carries, if any.
ExtractIp(data) ==
    IF data.t = "string" THEN [found |-> TRUE, ip |-> Str(Trim(data.s))]
    ELSE IF Truthy(data) /\ Truthy(Get(data, "ip"))
         THEN [found |-> TRUE, ip |-> Get(data, "ip")]
    ELSE [found |-> FALSE, ip |-> Undefined]

\* Mutant: the candidate is cached before it is validated.
getPublicIpAttempt_cacheFirst(cfg, net, map, t, resp) ==
    IF resp.status = "rejected"
    THEN [kind |-> "continue", value |-> Undefined, cache |-> map]
    ELSE LET x == ExtractIp(resp.data)
             stored == IF x.found
                       THEN setCached(cfg, map, PublicIpKey, x.ip, Undefined, t)
                       ELSE map
         IN  IF x.found /\ isValidIp(x.ip, net)
             THEN [kind |-> "return", value |-> x.ip, cache |-> stored]
             ELSE [kind |-> "continue", value |-> Undefined, cache |-> stored]

\* One iteration of the provider loop on the response resp: return the
\* address (after caching it) or continue with the next provider.
getPublicIpAttempt(cfg, net, map, t, resp) ==
    IF resp.status = "rejected"
    THEN [kind |-> "continue", value |-> Undefined, cache |-> map]
    ELSE LET x == ExtractIp(resp.data)
         IN  IF x.found /\ isValidIp(x.ip, net)
             THEN [kind |-> "return", value |-> x.ip,
                   cache |-> setCached(cfg, map, PublicIpKey, x.ip, Undefined, t)]
             ELSE [kind |-> "continue", value |-> Undefined, cache |-> map]

\* Mutant: the first provider is taken to be down and is skipped.
getPublicIpEnter_skipFirst(cfg, map, t) ==
    LET g == getCached(cfg, map, PublicIpKey, t)
        call == [Idle EXCEPT !.op = "getPublicIp",
                             !.seen = Seen(map, PublicIpKey),
                             !.age = Age(map, PublicIpKey, t),
                             !.kept = MapHas(g.cache, PublicIpKey)]
    IN  IF Truthy(g.value)
        THEN [call |-> [call EXCEPT !.pc = "done", !.result = Ok(g.value)],
              cache |-> g.cache]
        ELSE [call |-> [call EXCEPT !.pc = "await", !.idx = 2,
                                    !.contacted = <<Request(IpProviders[2], Undefined)>>],
              cache |-> g.cache]

\* getPublicIp up to its first await: the cache lookup, then the first
\* request.  The call record and the Map afterwards.
getPublicIpEnter(cfg, map, t) ==
    LET g == getCached(cfg, map, PublicIpKey, t)
        call == [Idle EXCEPT !.op = "getPublicIp",
                             !.seen = Seen(map, PublicIpKey),
                             !.age = Age(map, PublicIpKey, t),
                             !.kept = MapHas(g.cache, PublicIpKey)]
    IN  IF Truthy(g.value)
        THEN [call |-> [call EXCEPT !.pc = "done", !.result = Ok(g.value)],
              cache |-> g.cache]
        ELSE [call |-> [call EXCEPT !.pc = "await", !.idx = 1,
                                    !.contacted = <<Request(IpProviders[1], Undefined)>>],
              cache |-> g.cache]

\* Mutant: a valid response does not end the loop unless it is the last.
getPublicIpResume_noStop(cfg, net, map, t, call, resp) ==
    LET a == getPublicIpAttempt(cfg, net, map, t, resp)
        i == call.idx
    IN  [cache |-> a.cache,
         call |->
            IF i < Len(IpProviders)
            THEN [call EXCEPT !.idx = i + 1, !.resp = resp,
                              !.contacted = Append(@, Request(IpProviders[i + 1], Undefined))]
            ELSE IF a.kind = "return"
            THEN [call EXCEPT !.pc = "done", !.resp = resp, !.result = Ok(a.value)]
            ELSE [call EXCEPT !.pc = "failed", !.resp = resp, !.result = AllIpFailed]]

\* Mutant: a provider that failed is asked again.
getPublicIpResume_again(cfg, net, map, t, call, resp) ==
    LET a == getPublicIpAttempt(cfg, net, map, t, resp)
        i == call.idx
    IN  [cache |-> a.cache,
         call |->
            IF a.kind = "return"
            THEN [call EXCEPT !.pc = "done", !.resp = resp, !.result = Ok(a.value)]
            ELSE [call EXCEPT !.resp = resp,
                              !.contacted = Append(@, Request(IpProviders[i], Undefined))]]

\* What the call does with the response of provider i: return, request the
\* next provider, or throw the aggregate error.
getPublicIpResume(cfg, net, map, t, call, resp) ==
    LET a == getPublicIpAttempt(cfg, net, map, t, resp)
        i == call.idx
    IN  [cache |-> a.cache,
         call |->
            IF a.kind = "return"
            THEN [call EXCEPT !.pc = "done", !.resp = resp, !.result = Ok(a.value)]
            ELSE IF i < Len(IpProviders)
            THEN [call EXCEPT !.idx = i + 1, !.resp = resp,
                              !.contacted = Append(@, Request(IpProviders[i + 1], Undefined))]
            ELSE [call EXCEPT !.pc = "failed", !.resp = resp, !.result = AllIpFailed]]

GetPublicIpStart(c) ==
    /\ "IpManager" \in mgrs
    /\ calls[c].pc \in Settled
    /\ LET e == getPublicIpEnter(config, cache["IpManager"], now)
       IN  /\ cache' = [cache EXCEPT !["IpManager"] = e.cache]
           /\ calls' = [calls EXCEPT ![c] = e.call]
    /\ lastOp' = NoOp
    /\ UNCHANGED <<mgrs, config, netAvailable, now, ticks, rt, svc, heap>>

\* The response of provider idx arrives.
GetPublicIpRespond(c) ==
    /\ calls[c].pc = "await"
    /\ calls[c].op = "getPublicIp"
    /\ \E resp \in IpResponses :
          LET r == getPublicIpResume(config, netAvailable, cache["IpManager"], now,
                                     calls[c], resp)
          IN  /\ cache' = [cache EXCEPT !["IpManager"] = r.cache]
              /\ calls' = [calls EXCEPT ![c] = r.call]
    /\ lastOp' = NoOp
    /\ UNCHANGED <<mgrs, config, netAvailable, now, ticks, rt, svc, heap>>

(***************************************************************************)
(* LocationManager.getLocation                                             *)
(***************************************************************************)
\* Mutant: a lookup request that failed is answered by another provider.
getCurrentPublicIp_fallback(resp) ==
    IF resp.status = "rejected" THEN Ok(Str(PublicAddress))
    ELSE IF resp.data.t \in {"null", "undefined"} THEN LookupFailed
    ELSE Ok(Get(resp.data, "ip"))

\* getCurrentPublicIp on the response of the lookup request: the value it
\* returns (response.data.ip), or the error it throws.
getCurrentPublicIp(resp) ==
    IF resp.status = "rejected" THEN LookupFailed
    ELSE IF resp.data.t \in {"null", "undefined"} THEN LookupFailed
    ELSE Ok(Get(resp.data, "ip"))

\* The address a request of the call names: the caller's argument, or none.
UrlIp(call) == IF Truthy(call.param) THEN call.param ELSE Undefined

\* getLocation from the validation of targetIp to the first await: the
\* cache lookup, then the first request.
getLocationEnter(cfg, map, t, call, targetIp) ==
    IF ~LocationManager_isValidIp(targetIp)
    THEN [call |-> [call EXCEPT !.pc = "failed", !.target = targetIp,
                                !.result = InvalidIp(targetIp)],
          cache |-> map]
    ELSE LET cacheKey == LocationKey(targetIp.s)
             g == getCached(cfg, map, cacheKey, t)
             looked == [call EXCEPT !.target = targetIp,
                                    !.seen = Seen(map, cacheKey),
                                    !.age = Age(map, cacheKey, t),
                                    !.kept = MapHas(g.cache, cacheKey)]
         IN  IF Truthy(g.value)
             THEN [call |-> [looked EXCEPT !.pc = "done", !.result = Ok(g.value)],
                   cache |-> g.cache]
             ELSE [call |-> [looked EXCEPT !.pc = "await", !.idx = 1,
                                           !.contacted =
                                              <<Request(LocProviders[1], UrlIp(call))>>],
                   cache |-> g.cache]

\* Mutant: a valid answer is returned without being stored.
getLocationAttempt_noStore(cfg, map, t, cacheKey, resp) ==
    IF resp.status = "rejected"
    THEN [kind |-> "continue", value |-> Undefined, cache |-> map]
    ELSE IF Truthy(resp.data) /\ isValidLocationData(resp.data)
         THEN [kind |-> "return", value |-> resp.data, cache |-> map]
    ELSE [kind |-> "continue", value |-> Undefined, cache |-> map]

\* One iteration of the provider loop on the response resp.
getLocationAttempt(cfg, map, t, cacheKey, resp) ==
    IF resp.status = "rejected"
    THEN [kind |-> "continue", value |-> Undefined, cache |-> map]
    ELSE IF Truthy(resp.data) /\ isValidLocationData(resp.data)
         THEN [kind |-> "return", value |-> resp.data,
               cache |-> setCached(cfg, map, cacheKey, resp.data, Undefined, t)]
    ELSE [kind |-> "continue", value |-> Undefined, cache |-> map]

\* Mutant: a transport error ends the call with the provider's error.
getLocationResume_surface(cfg, map, t, call, resp) ==
    LET a == getLocationAttempt(cfg, map, t, LocationKey(call.target.s), resp)
        i == call.idx
    IN  [cache |-> a.cache,
         call |->
            IF a.kind = "return"
            THEN [call EXCEPT !.pc = "done", !.resp = resp, !.result = Ok(a.value)]
            ELSE IF resp.status = "rejected"
            THEN [call EXCEPT !.pc = "failed", !.resp = resp,
                              !.result = Err(resp.message, Undefined)]
            ELSE IF i < Len(LocProviders)
            THEN [call EXCEPT !.idx = i + 1, !.resp = resp,
                              !.contacted =
                                 Append(@, Request(LocProviders[i + 1], UrlIp(call)))]
            ELSE [call EXCEPT !.pc = "failed", !.resp = resp, !.result = AllLocFailed]]

\* What the call does with the response of provider i.
getLocationResume(cfg, map, t, call, resp) ==
    LET a == getLocationAttempt(cfg, map, t, LocationKey(call.target.s), resp)
        i == call.idx
    IN  [cache |-> a.cache,
         call |->
            IF a.kind = "return"
            THEN [call EXCEPT !.pc = "done", !.resp = resp, !.result = Ok(a.value)]
            ELSE IF i < Len(LocProviders)
            THEN [call EXCEPT !.idx = i + 1, !.resp = resp,
                              !.contacted =
                                 Append(@, Request(LocProviders[i + 1], UrlIp(call)))]
            ELSE [call EXCEPT !.pc = "failed", !.resp = resp, !.result = AllLocFailed]]

\* getLocation(ip) up to its first await.  With ip given nothing is awaited
\* before the provider loop; without it the public address is requested.
getLocationStart(cfg, map, t, ip) ==
    LET call == [Idle EXCEPT !.op = "getLocation", !.param = ip]
    IN  IF Truthy(ip)
        THEN getLocationEnter(cfg, map, t, call, ip)
        ELSE [call |-> [call EXCEPT !.pc = "lookup", !.lookup = TRUE], cache |-> map]

\* Task c calls getLocation with an argument of args.
GetLocationCall(c, args) ==
    /\ "LocationManager" \in mgrs
    /\ calls[c].pc \in Settled
    /\ \E ip \in args :
          LET e == getLocationStart(config, cache["LocationManager"], now, ip)
          IN  /\ calls' = [calls EXCEPT ![c] = e.call]
              /\ cache' = [cache EXCEPT !["LocationManager"] = e.cache]
    /\ lastOp' = NoOp
    /\ UNCHANGED <<mgrs, config, netAvailable, now, ticks, rt, svc, heap>>

GetLocationStart(c) == GetLocationCall(c, LocationArgs)

\* The lookup of the public address settles.
GetLocationLookupRespond(c) ==
    /\ calls[c].pc = "lookup"
    /\ \E resp \in LookupResponses :
          LET m == "LocationManager"
              r == getCurrentPublicIp(resp)
              k == [calls[c] EXCEPT !.lookupResp = resp]
          IN  IF r.ok
              THEN LET e == getLocationEnter(config, cache[m], now, k, r.value)
                   IN  /\ calls' = [calls EXCEPT ![c] = e.call]
                       /\ cache' = [cache EXCEPT ![m] = e.cache]
              ELSE /\ calls' = [calls EXCEPT ![c] = [k EXCEPT !.pc = "failed", !.result = r]]
                   /\ cache' = cache
    /\ lastOp' = NoOp
    /\ UNCHANGED <<mgrs, config, netAvailable, now, ticks, rt, svc, heap>>

\* The response of geolocation provider idx arrives.
GetLocationRespond(c) ==
    /\ calls[c].pc = "await"
    /\ calls[c].op = "getLocation"
    /\ \E resp \in LocResponses(calls[c].contacted[calls[c].idx].ip) :
          LET r == getLocationResume(config, cache["LocationManager"], now, calls[c], resp)
          IN  /\ cache' = [cache EXCEPT !["LocationManager"] = r.cache]
              /\ calls' = [calls EXCEPT ![c] = r.call]
    /\ lastOp' = NoOp
    /\ UNCHANGED <<mgrs, config, netAvailable, now, ticks, rt, svc, heap>>

(***************************************************************************)
(* NetworkManager.getInterfaces                                            *)
(***************************************************************************)
Info(address, family, internal, cidr) ==
    [address |-> address, netmask |-> "255.0.0.0", family |-> family,
     mac |-> "00:00:00:00:00:00", internal |-> internal, cidr |-> cidr]

\* What os.networkInterfaces() can answer.
OsInterfaces ==
    { [lo |-> <<Info("127.0.0.1", "IPv4", TRUE, Str(<<"127.0.0.1/8">>))>>],
      [lo |-> <<Info("127.0.0.1", "IPv4", TRUE, Str(<<"127.0.0.1/8">>))>>,
       eth0 |-> <<Info("192.168.1.100", "IPv4", FALSE, Null),
                  Info("fe80::1", "IPv6", FALSE, Str(<<"fe80::1/64">>))>>] }

\* Lines 24-39: the result object built from the enumeration.
InterfacesResult(interfaces) ==
    [t |-> "object",
     map |-> [name \in DOMAIN interfaces |->
                [i \in 1..Len(interfaces[name]) |->
                   [interfaces[name][i] EXCEPT
                      !.cidr = IF Truthy(@) THEN @ ELSE Null]]]]

\* Mutant: the entry is stored with the configured ttl.
getInterfaces_configTtl(cfg, map, t, interfaces) ==
    LET g == getCached(cfg, map, InterfacesKey, t)
    IN  IF Truthy(g.value)
        THEN [result |-> g.value, os |-> FALSE, cache |-> g.cache]
        ELSE [result |-> InterfacesResult(interfaces), os |-> TRUE,
              cache |-> setCached(cfg, g.cache, InterfacesKey,
                                  InterfacesResult(interfaces), Undefined, t)]

\* getInterfaces() when the enumeration of the OS would answer interfaces:
\* the result, whether the OS was asked, and the Map afterwards.
getInterfaces(cfg, map, t, interfaces) ==
    LET g == getCached(cfg, map, InterfacesKey, t)
    IN  IF Truthy(g.value)
        THEN [result |-> g.value, os |-> FALSE, cache |-> g.cache]
        ELSE [result |-> InterfacesResult(interfaces), os |-> TRUE,
              cache |-> setCached(cfg, g.cache, InterfacesKey,
                                  InterfacesResult(interfaces), Num(InterfacesTtl), t)]

\* getInterfaces is synchronous: one step.
GetInterfaces ==
    /\ "NetworkManager" \in mgrs
    /\ \E interfaces \in OsInterfaces :
          LET m == "NetworkManager"
              r == getInterfaces(config, cache[m], now, interfaces)
          IN  /\ cache' = [cache EXCEPT ![m] = r.cache]
              /\ lastOp' = [op |-> "getInterfaces", os |-> r.os, result |-> r.result,
                            seen |-> Seen(cache[m], InterfacesKey),
                            age |-> Age(cache[m], InterfacesKey, now)]
    /\ UNCHANGED <<mgrs, config, netAvailable, now, ticks, calls, rt, svc, heap>>

(***************************************************************************)
(* clearCache, and the clock.                                              *)
(***************************************************************************)
ClearCache(m) ==
    /\ m \in mgrs
    /\ \E key \in ClearArgs(m) :
          /\ cache' = [cache EXCEPT ![m] = clearCache(@, key)]
          /\ lastOp' = [op |-> "clearCache", mgr |-> m, key |-> key,
                        removed |-> Cardinality(DOMAIN cache[m])
                                    - Cardinality(DOMAIN clearCache(cache[m], key))]
    /\ UNCHANGED <<mgrs, config, netAvailable, now, ticks, calls, rt, svc, heap>>

Tick ==
    /\ ticks < MaxTicks
    /\ \E d \in TickSteps(mgrs) : now' = now + d
    /\ ticks' = ticks + 1
    /\ lastOp' = NoOp
    /\ UNCHANGED <<mgrs, config, netAvailable, cache, calls, rt, svc, heap>>

(***************************************************************************)
(* One manager object under arbitrary callers.                             *)
(***************************************************************************)
Configs == {[cache |-> [enabled |-> e, ttl |-> ttl]] : e \in BOOLEAN, ttl \in CacheTtlValues}

Init ==
    /\ mgrs \in {{m} : m \in Managers}
    /\ config \in Configs
    /\ netAvailable \in (IF "IpManager" \in mgrs THEN BOOLEAN ELSE {TRUE})
    /\ now = 0
    /\ ticks = 0
    /\ cache = [m \in Managers |-> EmptyMap]
    /\ calls = [c \in Calls |-> Idle]
    /\ lastOp = NoOp
    /\ rt = RetryIdle
    /\ svc = SvcIdle
    /\ heap = HeapEmpty

Next ==
    \/ \E c \in Calls : GetPublicIpStart(c)
    \/ \E c \in Calls : GetPublicIpRespond(c)
    \/ \E c \in Calls : GetLocationStart(c)
    \/ \E c \in Calls : GetLocationLookupRespond(c)
    \/ \E c \in Calls : GetLocationRespond(c)
    \/ GetInterfaces
    \/ \E m \in Managers : ClearCache(m)
    \/ Tick

Spec == Init /\ [][Next]_vars

(***************************************************************************)
(* retry(operation, maxRetries, delayMs)                                   *)
(***************************************************************************)
ErrorObject(message) == [t |-> "error", message |-> message]

\* What one invocation of the operation can do.
OpOutcomes ==
    { [status |-> "rejected", error |-> ErrorObject("First fail")],
      [status |-> "rejected", error |-> ErrorObject("Always fails")],
      [status |-> "resolved", value |-> Str(<<"success">>)] }

RetryArgs == (-1)..MaxRetryArg
DelayArgs == {10, 100, 1000}

RECURSIVE Pow2(_)
Pow2(n) == IF n = 0 THEN 1 ELSE 2 * Pow2(n - 1)

\* Mutant: one iteration too many.
retryLoopCond_offByOne(attempt, maxRetries) == attempt <= maxRetries

\* The loop condition of retry.
retryLoopCond(attempt, maxRetries) == attempt < maxRetries

\* The loop head with the loop variable at attempt: invoke the operation, or
\* leave the loop and throw lastError.
retryLoop(r, attempt) ==
    IF retryLoopCond(attempt, r.maxRetries)
    THEN [r EXCEPT !.pc = "calling", !.attempt = attempt,
                   !.invocations = @ + 1]
    ELSE [r EXCEPT !.pc = "rejected", !.attempt = attempt,
                   !.result = Thrown(r.lastError)]

\* Mutant: a delay follows the final attempt too.
retrySettle_delayAfterLast(r, outcome) ==
    LET logged == [r EXCEPT !.outcomes = Append(@, outcome)]
    IN  IF outcome.status = "resolved"
        THEN [logged EXCEPT !.pc = "resolved", !.result = Ok(outcome.value)]
        ELSE LET caught == [logged EXCEPT !.lastError = outcome.error]
             IN  IF r.attempt < r.maxRetries
                 THEN [caught EXCEPT !.pc = "waiting",
                                     !.delays = Append(@, r.delayMs * Pow2(r.attempt))]
                 ELSE retryLoop(caught, r.attempt + 1)

\* Mutant: a success is not returned while attempts remain.
retrySettle_retryOnSuccess(r, outcome) ==
    LET logged == [r EXCEPT !.outcomes = Append(@, outcome)]
    IN  IF outcome.status = "resolved" /\ r.attempt >= r.maxRetries - 1
        THEN [logged EXCEPT !.pc = "resolved", !.result = Ok(outcome.value)]
        ELSE IF outcome.status = "resolved"
        THEN retryLoop(logged, r.attempt + 1)
        ELSE LET caught == [logged EXCEPT !.lastError = outcome.error]
             IN  IF r.attempt < r.maxRetries - 1
                 THEN [caught EXCEPT !.pc = "waiting",
                                     !.delays = Append(@, r.delayMs * Pow2(r.attempt))]
                 ELSE retryLoop(caught, r.attempt + 1)

\* The invocation settles: return its value, or catch its error and wait
\* before the next attempt when one remains.
retrySettle(r, outcome) ==
    LET logged == [r EXCEPT !.outcomes = Append(@, outcome)]
    IN  IF outcome.status = "resolved"
        THEN [logged EXCEPT !.pc = "resolved", !.result = Ok(outcome.value)]
        ELSE LET caught == [logged EXCEPT !.lastError = outcome.error]
             IN  IF r.attempt < r.maxRetries - 1
                 THEN [caught EXCEPT !.pc = "waiting",
                                     !.delays = Append(@, r.delayMs * Pow2(r.attempt))]
                 ELSE retryLoop(caught, r.attempt + 1)

RetryStart ==
    /\ rt.pc = "idle"
    /\ rt' = retryLoop(rt, 0)
    /\ UNCHANGED <<mgrs, config, netAvailable, now, ticks, cache, calls, lastOp, svc, heap>>

RetrySettle ==
    /\ rt.pc = "calling"
    /\ \E outcome \in OpOutcomes : rt' = retrySettle(rt, outcome)
    /\ UNCHANGED <<mgrs, config, netAvailable, now, ticks, cache, calls, lastOp, svc, heap>>

\* The timer of delay(ms) fires: the next iteration.
RetryDelayElapsed ==
    /\ rt.pc = "waiting"
    /\ rt' = retryLoop(rt, rt.attempt + 1)
    /\ UNCHANGED <<mgrs, config, netAvailable, now, ticks, cache, calls, lastOp, svc, heap>>

InitRetry ==
    /\ mgrs = {}
    /\ config = [cache |-> [enabled |-> TRUE, ttl |-> 300000]]
    /\ netAvailable = TRUE
    /\ now = 0
    /\ ticks = 0
    /\ cache = [m \in Managers |-> EmptyMap]
    /\ calls = [c \in Calls |-> Idle]
    /\ lastOp = NoOp
    /\ rt \in {RetryCall(n, d) : n \in RetryArgs, d \in DelayArgs}
    /\ svc = SvcIdle
    /\ heap = HeapEmpty

NextRetry ==
    \/ RetryStart
    \/ RetrySettle
    \/ RetryDelayElapsed

SpecRetry == InitRetry /\ [][NextRetry]_vars

(***************************************************************************)
(* LocationManager under callers that pass malformed addresses.            *)
(***************************************************************************)
LeadingZero == <<"0", "1", ".", "1", ".", "1", ".", "1">>
ThreeGroups == <<"1", "0", ".", "0", ".", "1">>

MalformedArgs == {Str(IpOver), Str(LeadingZero), Str(ThreeGroups), Str(NotAnIp)}

GetLocationMalformed(c) == GetLocationCall(c, MalformedArgs)

InitMalformed ==
    /\ mgrs = {"LocationManager"}
    /\ config \in Configs
    /\ netAvailable = TRUE
    /\ now = 0
    /\ ticks = 0
    /\ cache = [m \in Managers |-> EmptyMap]
    /\ calls = [c \in Calls |-> Idle]
    /\ lastOp = NoOp
    /\ rt = RetryIdle
    /\ svc = SvcIdle
    /\ heap = HeapEmpty

NextMalformed ==
    \/ \E c \in Calls : GetLocationMalformed(c)
    \/ \E c \in Calls : GetLocationRespond(c)

SpecMalformed == InitMalformed /\ [][NextMalformed]_vars

(***************************************************************************)
(* IpManager.getClientIp                                                   *)
(***************************************************************************)
Arr(items) == [t |-> "array", items |-> items]

\* obj?.f
OptGet(obj, f) == IF obj.t \in {"undefined", "null"} THEN Undefined ELSE Get(obj, f)

\* a || b
OrElse(a, b) == IF Truthy(a) THEN a ELSE b

StartsWith(s, prefix) ==
    Len(s) >= Len(prefix) /\ SubSeq(s, 1, Len(prefix)) = prefix

Localhost6 == <<":", ":", "1">>
Localhost4 == <<"1", "2", "7", ".", "0", ".", "0", ".", "1">>
MappedPrefix == <<":", ":", "f", "f", "f", "f", ":">>
Unknown == <<"unknown">>
TypeErrorOfUndefined == ErrorObject("Cannot read properties of undefined (reading 'split')")

\* Lines 83-88: the address the x-forwarded-for header gives, when the
\* header is an array or a string; forwarded[0] of an empty array is
\* undefined, and reading its split property throws.
forwardedIp(forwarded, ip) ==
    IF forwarded.t = "array"
    THEN IF forwarded.items = <<>> THEN Thrown(TypeErrorOfUndefined)
         ELSE Ok(Str(Trim(Split(forwarded.items[1].s, ",")[1])))
    ELSE IF forwarded.t = "string"
    THEN Ok(Str(Trim(Split(forwarded.s, ",")[1])))
    ELSE Ok(ip)

\* getClientIp(req): the string returned, or the error thrown.
getClientIp(req) ==
    LET direct ==
            OrElse(OrElse(OrElse(Get(req, "ip"),
                                 OptGet(Get(req, "connection"), "remoteAddress")),
                          OptGet(Get(req, "socket"), "remoteAddress")),
                   OptGet(OptGet(Get(req, "connection"), "socket"), "remoteAddress"))
        unmapped ==
            IF Truthy(direct) /\ StartsWith(direct.s, MappedPrefix)
            THEN Str(SubSeq(direct.s, Len(MappedPrefix) + 1, Len(direct.s)))
            ELSE direct
        forwarded ==
            IF ~Truthy(unmapped) \/ unmapped = Str(Localhost6)
            THEN forwardedIp(Get(Get(req, "headers"), "x-forwarded-for"), unmapped)
            ELSE Ok(unmapped)
    IN  IF direct = Str(Localhost6) THEN Ok(Str(Localhost4))
        ELSE IF ~forwarded.ok THEN forwarded
        ELSE LET ip == IF ~Truthy(forwarded.value) \/ forwarded.value = Str(Localhost6)
                       THEN OrElse(OrElse(Get(Get(req, "headers"), "x-real-ip"),
                                          Get(Get(req, "headers"), "x-client-ip")),
                                   Str(Unknown))
                       ELSE forwarded.value
             IN  Ok(Str(Split(ip.s, ":")[1]))

Ip6 == <<"2", "0", "0", "1", ":", "d", "b", "8", ":", ":", "1">>
CommaSpace == <<",", " ">>

\* The request metadata callers present.  A property that is absent is
\* left out of the object.
Field(name, value) == IF value = Undefined THEN <<>> ELSE name :> value

DirectIps == {Undefined, Str(Localhost6), Str(MappedPrefix \o IpA), Str(IpA), Str(Ip6)}
Connections == {Undefined, Object([remoteAddress |-> Str(IpB)]),
                Object([socket |-> Object([remoteAddress |-> Str(IpB)])])}
Sockets == {Undefined, Object([remoteAddress |-> Str(IpA)])}
ForwardedFor ==
    { Undefined,
      Str(IpB \o CommaSpace \o IpA),
      Str(<<" ">> \o IpB \o <<" ">>),
      Str(Ip6 \o CommaSpace \o IpA),
      Str(Localhost6),
      Str(<<>>),
      Arr(<<>>),
      Arr(<<Str(IpB \o CommaSpace \o IpA)>>),
      Arr(<<Str(IpA), Str(IpB)>>) }
RealIps == {Undefined, Str(IpA)}
ClientIps == {Undefined, Str(IpB)}

Requests ==
    { Object(Field("ip", ip) @@ Field("connection", conn) @@ Field("socket", sock)
             @@ [headers |-> Object(Field("x-forwarded-for", fwd)
                                    @@ Field("x-real-ip", real)
                                    @@ Field("x-client-ip", client))]) :
        ip \in DirectIps, conn \in Connections, sock \in Sockets,
        fwd \in ForwardedFor, real \in RealIps, client \in ClientIps }

\* getClientIp is synchronous and touches no state of the manager.
GetClientIp ==
    /\ "IpManager" \in mgrs
    /\ \E req \in Requests :
          lastOp' = [op |-> "getClientIp", req |-> req, result |-> getClientIp(req)]
    /\ UNCHANGED <<mgrs, config, netAvailable, now, ticks, cache, calls, rt, svc, heap>>

InitClientIp ==
    /\ mgrs = {"IpManager"}
    /\ config = [cache |-> [enabled |-> TRUE, ttl |-> 300000]]
    /\ netAvailable = TRUE
    /\ now = 0
    /\ ticks = 0
    /\ cache = [m \in Managers |-> EmptyMap]
    /\ calls = [c \in Calls |-> Idle]
    /\ lastOp = NoOp
    /\ rt = RetryIdle
    /\ svc = SvcIdle
    /\ heap = HeapEmpty

NextClientIp == GetClientIp

SpecClientIp == InitClientIp /\ [][NextClientIp]_vars

(***************************************************************************)
(* IpManager.isValidIp on address text.                                    *)
(***************************************************************************)
RECURSIVE Join(_, _)
Join(groups, sep) ==
    IF Len(groups) = 0 THEN <<>>
    ELSE IF Len(groups) = 1 THEN groups[1]
    ELSE groups[1] \o <<sep>> \o Join(Tail(groups), sep)

\* Dot-separated text: every sequence of up to MaxOctets groups.
OctetTexts ==
    { <<"0">>, <<"2", "5", "5">>, <<"2", "5", "6">>, <<"0", "1">>, <<"a">>, <<>> }

Ipv4Inputs ==
    UNION { {Join(g, ".") : g \in [1..n -> OctetTexts]} : n \in 1..MaxOctets }

\* Colon-separated text: up to MaxHextets groups, each empty or one text.
HextetTexts ==
    { <<"1">>, <<"a", "B", "c", "d">>, <<"1", "2", "3", "4", "5">>, <<"g">> }

Ipv6Inputs ==
    UNION { { Join([i \in 1..n |-> IF i \in E THEN <<>> ELSE h], ":") :
                 E \in SUBSET (1..n), h \in HextetTexts } : n \in 1..MaxHextets }

AddressInputs == Ipv4Inputs \cup Ipv6Inputs

\* isValidIp is applied to the text that was presented.
ValidateIp ==
    /\ lastOp.op = "input"
    /\ lastOp' = [op |-> "isValidIp", ip |-> lastOp.ip,
                  result |-> isValidIp(Str(lastOp.ip), netAvailable)]
    /\ UNCHANGED <<mgrs, config, netAvailable, now, ticks, cache, calls, rt, svc, heap>>

InitValidate ==
    /\ mgrs = {"IpManager"}
    /\ config = [cache |-> [enabled |-> TRUE, ttl |-> 300000]]
    /\ netAvailable \in BOOLEAN
    /\ now = 0
    /\ ticks = 0
    /\ cache = [m \in Managers |-> EmptyMap]
    /\ calls = [c \in Calls |-> Idle]
    /\ lastOp \in {[op |-> "input", ip |-> ip] : ip \in AddressInputs}
    /\ rt = RetryIdle
    /\ svc = SvcIdle
    /\ heap = HeapEmpty

NextValidate == ValidateIp

SpecValidate == InitValidate /\ [][NextValidate]_vars

(***************************************************************************)
(* NetworkService: getFullNetworkInfo and healthCheck.                     *)
(***************************************************************************)
\* The tasks that run the two asynchronous resolutions of getFullNetworkInfo.
IpTask == 1
LocTask == 2
AggregateTasks == {IpTask, LocTask}

\* Object.keys / Object.values enumerate the interfaces in this order.
InterfaceNames == <<"lo", "eth0">>

\* The addresses of the interfaces that are external and IPv4.
RECURSIVE ExternalOfList(_)
ExternalOfList(infos) ==
    IF infos = <<>> THEN <<>>
    ELSE IF ~Head(infos).internal /\ Head(infos).family = "IPv4"
         THEN <<Head(infos).address>> \o ExternalOfList(Tail(infos))
    ELSE ExternalOfList(Tail(infos))

RECURSIVE ExternalOf(_, _)
ExternalOf(names, map) ==
    IF names = <<>> THEN <<>>
    ELSE IF Head(names) \in DOMAIN map
         THEN ExternalOfList(map[Head(names)]) \o ExternalOf(Tail(names), map)
    ELSE ExternalOf(Tail(names), map)

\* NetworkManager.getExternalAddresses(): it resolves the interfaces itself.
getExternalAddresses(cfg, map, t, interfaces) ==
    LET g == getInterfaces(cfg, map, t, interfaces)
    IN  [result |-> ExternalOf(InterfaceNames, g.result.map), os |-> g.os, cache |-> g.cache]

\* error.message of the Error a resolution threw.
ErrorMessage(r) == [text |-> r.error, arg |-> r.arg]

ApiResponse(success, data, error, t) ==
    [success |-> success, data |-> data, error |-> error, timestamp |-> t]

\* Mutant: what succeeded is returned beside the error.
fullInfoResult_partial(ipCall, locCall, interfaces, externalAddresses, t) ==
    IF ipCall.pc = "failed"
    THEN ApiResponse(FALSE,
                     [publicIp |-> Null, location |-> Null, interfaces |-> interfaces,
                      externalAddresses |-> externalAddresses],
                     ErrorMessage(ipCall.result), t)
    ELSE IF locCall.pc = "failed"
    THEN ApiResponse(FALSE,
                     [publicIp |-> Null, location |-> Null, interfaces |-> interfaces,
                      externalAddresses |-> externalAddresses],
                     ErrorMessage(locCall.result), t)
    ELSE ApiResponse(TRUE,
                     [publicIp |-> ipCall.result.value, location |-> locCall.result.value,
                      interfaces |-> interfaces, externalAddresses |-> externalAddresses],
                     Null, t)

\* Lines 340-353: what getFullNetworkInfo returns once Promise.all settles,
\* by the rejection of one resolution or the fulfilment of all.
fullInfoResult(ipCall, locCall, interfaces, externalAddresses, t) ==
    IF ipCall.pc = "failed"
    THEN ApiResponse(FALSE, Null, ErrorMessage(ipCall.result), t)
    ELSE IF locCall.pc = "failed"
    THEN ApiResponse(FALSE, Null, ErrorMessage(locCall.result), t)
    ELSE ApiResponse(TRUE,
                     [publicIp |-> ipCall.result.value, location |-> locCall.result.value,
                      interfaces |-> interfaces, externalAddresses |-> externalAddresses],
                     Null, t)

\* Mutant: the call waits until every resolution has settled.
SettleDue_allSettled ==
    /\ svc.pc = "waiting"
    /\ \A c \in AggregateTasks : calls[c].pc \in {"done", "failed"}

\* Promise.all has settled and the continuation of getFullNetworkInfo is
\* due: it runs as a microtask, before any further response or timer.
SettleDue ==
    /\ svc.pc = "waiting"
    /\ \/ \E c \in AggregateTasks : calls[c].pc = "failed"
       \/ \A c \in AggregateTasks : calls[c].pc = "done"

\* Lines 331-338: the four resolutions are started, in order, while the
\* array passed to Promise.all is built; then the call awaits.
FullInfoStart ==
    /\ mgrs = Managers
    /\ svc.pc \in {"idle", "done"}
    /\ \A c \in AggregateTasks : calls[c].pc \in Settled
    /\ \E first \in OsInterfaces, second \in OsInterfaces :
          LET e1 == getPublicIpEnter(config, cache["IpManager"], now)
              e2 == getLocationStart(config, cache["LocationManager"], now, Undefined)
              n1 == getInterfaces(config, cache["NetworkManager"], now, first)
              n2 == getExternalAddresses(config, n1.cache, now, second)
          IN  /\ calls' = [calls EXCEPT ![IpTask] = e1.call, ![LocTask] = e2.call]
              /\ cache' = [cache EXCEPT !["IpManager"] = e1.cache,
                                        !["LocationManager"] = e2.cache,
                                        !["NetworkManager"] = n2.cache]
              /\ svc' = [pc |-> "waiting", op |-> "getFullNetworkInfo",
                         interfaces |-> n1.result, externalAddresses |-> n2.result,
                         pending |-> {}, result |-> NoResponse]
    /\ lastOp' = NoOp
    /\ UNCHANGED <<mgrs, config, netAvailable, now, ticks, rt, heap>>

\* The continuation after Promise.all: the response is built.  pending
\* records the resolutions that had not settled by then.
FullInfoSettle ==
    /\ SettleDue
    /\ svc' = [svc EXCEPT
                 !.pc = "done",
                 !.pending = {c \in AggregateTasks : calls[c].pc \notin Settled},
                 !.result = fullInfoResult(calls[IpTask], calls[LocTask], svc.interfaces,
                                           svc.externalAddresses, now)]
    /\ UNCHANGED <<mgrs, config, netAvailable, now, ticks, cache, calls, lastOp, rt, heap>>

\* Responses, once no continuation is due.
SvcIpRespond(c) == ~SettleDue /\ GetPublicIpRespond(c)
SvcLookupRespond(c) == ~SettleDue /\ GetLocationLookupRespond(c)
SvcLocRespond(c) == ~SettleDue /\ GetLocationRespond(c)

\* The clock advances while getFullNetworkInfo waits for its resolutions.
SvcTick == ~SettleDue /\ svc.pc = "waiting" /\ Tick

\* What a probe request of a manager's healthCheck can meet.
ProbeResponses == {Rejected, Resolved(Undefined)}
Probes == {"ipServices", "geolocationServices"}

\* Mutant: a failed probe is thrown, not reported.
healthCheck_throws(resp) ==
    IF resp.status = "resolved" THEN Ok(TRUE) ELSE Err(resp.message, Undefined)

\* IpManager.healthCheck / LocationManager.healthCheck on the response of
\* the probe: true, or false when the request failed.
healthCheck(resp) == Ok(resp.status = "resolved")

\* Lines 367-390: what healthCheck returns for the settled probes, or
\* NoResponse while Promise.all is pending.
healthResult(probes, t) ==
    IF \E k \in Probes : probes[k].settled /\ ~probes[k].outcome.ok
    THEN LET k == CHOOSE j \in Probes : probes[j].settled /\ ~probes[j].outcome.ok
         IN  ApiResponse(FALSE, Null, ErrorMessage(probes[k].outcome), t)
    ELSE IF \A k \in Probes : probes[k].settled
    THEN ApiResponse(TRUE,
                     [ipServices |-> probes["ipServices"].outcome.value,
                      geolocationServices |-> probes["geolocationServices"].outcome.value,
                      networkInfo |-> TRUE],
                     Null, t)
    ELSE NoResponse

NoProbe == [settled |-> FALSE, resp |-> NoResponse, outcome |-> NoResult]

\* Lines 367-371: both probes are started, then the call awaits.  The
\* service is probed while no resolution is in flight.
HealthStart ==
    /\ mgrs = Managers
    /\ svc.pc \in {"idle", "done"}
    /\ \A c \in Calls : calls[c].pc \in Settled
    /\ svc' = [pc |-> "probing", op |-> "healthCheck",
               probes |-> [k \in Probes |-> NoProbe], result |-> NoResponse]
    /\ UNCHANGED <<mgrs, config, netAvailable, now, ticks, cache, calls, lastOp, rt, heap>>

\* The request of one probe settles; the continuation of healthCheck runs
\* when Promise.all settles with it.
HealthProbeRespond(k) ==
    /\ svc.pc = "probing"
    /\ ~svc.probes[k].settled
    /\ \E resp \in ProbeResponses :
          LET probes == [svc.probes EXCEPT
                            ![k] = [settled |-> TRUE, resp |-> resp,
                                    outcome |-> healthCheck(resp)]]
              r == healthResult(probes, now)
          IN  svc' = [svc EXCEPT !.probes = probes,
                                 !.result = r,
                                 !.pc = IF r = NoResponse THEN "probing" ELSE "done"]
    /\ UNCHANGED <<mgrs, config, netAvailable, now, ticks, cache, calls, lastOp, rt, heap>>

\* The constructor has built the three managers.
InitService ==
    /\ mgrs = Managers
    /\ config \in Configs
    /\ netAvailable = TRUE
    /\ now = 0
    /\ ticks = 0
    /\ cache = [m \in Managers |-> EmptyMap]
    /\ calls = [c \in Calls |-> Idle]
    /\ lastOp = NoOp
    /\ rt = RetryIdle
    /\ svc = SvcIdle
    /\ heap = HeapEmpty

NextService ==
    \/ FullInfoStart
    \/ FullInfoSettle
    \/ \E c \in Calls : SvcIpRespond(c)
    \/ \E c \in Calls : SvcLookupRespond(c)
    \/ \E c \in Calls : SvcLocRespond(c)
    \/ SvcTick
    \/ HealthStart
    \/ \E k \in Probes : HealthProbeRespond(k)

SpecService == InitService /\ [][NextService]_vars

(***************************************************************************)
(* NetworkService instances: the constructor, getInstance, createInstance  *)
(* and updateConfig.  heap.services[s] is a NetworkService (its config     *)
(* object and the managers it holds now); heap.bundles[b] is one           *)
(* generation of managers made by initializeManagers, with the config      *)
(* object they were given and their private Maps.                          *)
(***************************************************************************)
Services == 1..Len(heap.services)
Bundles == 1..Len(heap.bundles)

\* a?.b?.c
OptGet2(obj, f, g) == OptGet(OptGet(obj, f), g)

\* a ?? b
NullishElse(a, b) == IF a.t \in {"undefined", "null"} THEN b ELSE a

\* Lines 228-243: the configuration the constructor builds from its argument.
NetworkServiceConfig(arg) ==
    Object([api |->
               Object([ipifyUrl |-> OrElse(OptGet2(arg, "api", "ipifyUrl"),
                                           Str(<<"https://api.ipify.org?format=json">>)),
                       geolocationUrl |-> OrElse(OptGet2(arg, "api", "geolocationUrl"),
                                                 Str(<<"https://ipapi.co">>)),
                       timeout |-> OrElse(OptGet2(arg, "api", "timeout"), Num(10000)),
                       retries |-> OrElse(OptGet2(arg, "api", "retries"), Num(3))]),
            cache |->
               Object([enabled |-> NullishElse(OptGet2(arg, "cache", "enabled"), Bool(TRUE)),
                       ttl |-> OrElse(OptGet2(arg, "cache", "ttl"), Num(300000))]),
            features |->
               Object([rateLimiting |->
                          NullishElse(OptGet2(arg, "features", "rateLimiting"), Bool(TRUE)),
                       fallbackProviders |->
                          NullishElse(OptGet2(arg, "features", "fallbackProviders"),
                                      Bool(TRUE))])])

\* { ...a, ...b }: the own properties of b over those of a.
ShallowMerge(a, b) ==
    [k \in (DOMAIN a) \cup (DOMAIN b) |-> IF k \in DOMAIN b THEN b[k] ELSE a[k]]

\* What the cache code of a manager reads in its config object:
\* this.config.cache.enabled as a condition and this.config.cache.ttl as the
\* default lifetime (read only when caching is on).
ManagerConfig(cfg) ==
    LET c == Get(cfg, "cache")
        ttl == Get(c, "ttl")
    IN  [cache |-> [enabled |-> Truthy(Get(c, "enabled")),
                    ttl |-> IF ttl.t = "number" THEN ttl.n ELSE 0]]

\* The arguments given to getInstance / createInstance and to updateConfig.
ConstructorArgs ==
    { Undefined,
      Object([cache |-> Object([enabled |-> Bool(FALSE), ttl |-> Num(60000)])]) }

Partials ==
    { Object([cache |-> Object([ttl |-> Num(120000)])]),
      Object([api |-> Object([timeout |-> Num(5000)])]) }

\* What a provider answers a call of a service: a failure or an address.
ServiceIpResponses == {Rejected, Resolved(Object([ip |-> Str(IpB)]))}

\* initializeManagers: three new managers holding cfg, their Maps empty.
initializeManagers(cfg, owner) ==
    [config |-> cfg, owner |-> owner, cache |-> [m \in Managers |-> EmptyMap]]

\* new NetworkService(arg)
construct(h, arg) ==
    LET cfg == NetworkServiceConfig(arg)
        s == Len(h.services) + 1
        b == Len(h.bundles) + 1
    IN  [h EXCEPT !.services = Append(@, [config |-> cfg, mgr |-> b]),
                  !.bundles = Append(@, initializeManagers(cfg, s))]

\* Mutant: every call constructs the instance anew.
getInstance_renew(h, arg) ==
    LET n == construct(h, arg)
    IN  [heap |-> [n EXCEPT !.singleton = Len(n.services)], result |-> Len(n.services)]

\* NetworkService.getInstance(arg)
getInstance(h, arg) ==
    IF h.singleton = 0
    THEN LET n == construct(h, arg)
         IN  [heap |-> [n EXCEPT !.singleton = Len(n.services)],
              result |-> Len(n.services)]
    ELSE [heap |-> h, result |-> h.singleton]

\* NetworkService.createInstance(arg)
createInstance(h, arg) ==
    LET n == construct(h, arg)
    IN  [heap |-> n, result |-> Len(n.services)]

\* Mutant: the managers are kept and their configuration is changed in place.
updateConfig_inPlace(h, s, partial) ==
    LET cfg == ShallowMerge(h.services[s].config, partial)
    IN  [h EXCEPT !.services[s].config = cfg,
                  !.bundles[h.services[s].mgr].config = cfg]

\* service.updateConfig(partial)
updateConfig(h, s, partial) ==
    LET cfg == ShallowMerge(h.services[s].config, partial)
        b == Len(h.bundles) + 1
    IN  [h EXCEPT !.services[s] = [config |-> cfg, mgr |-> b],
                  !.bundles = Append(@, initializeManagers(cfg, s))]

CanConstruct == Len(heap.services) < MaxServices /\ Len(heap.bundles) < MaxBundles

GetInstance ==
    /\ heap.singleton # 0 \/ CanConstruct
    /\ \E arg \in ConstructorArgs :
          LET r == getInstance(heap, arg)
          IN  /\ heap' = r.heap
              /\ lastOp' = [op |-> "getInstance", arg |-> arg, result |-> r.result]
    /\ UNCHANGED <<mgrs, config, netAvailable, now, ticks, cache, calls, rt, svc>>

CreateInstance ==
    /\ CanConstruct
    /\ \E arg \in ConstructorArgs :
          LET r == createInstance(heap, arg)
          IN  /\ heap' = r.heap
              /\ lastOp' = [op |-> "createInstance", arg |-> arg, result |-> r.result]
    /\ UNCHANGED <<mgrs, config, netAvailable, now, ticks, cache, calls, rt, svc>>

UpdateConfig(s) ==
    /\ Len(heap.bundles) < MaxBundles
    /\ \E partial \in Partials :
          /\ heap' = updateConfig(heap, s, partial)
          /\ lastOp' = [op |-> "updateConfig", service |-> s, partial |-> partial]
    /\ UNCHANGED <<mgrs, config, netAvailable, now, ticks, cache, calls, rt, svc>>

\* The managers b are no longer the ones their service holds.
Retired(b) == heap.services[heap.bundles[b].owner].mgr # b

\* service.getPublicIp() on service s: the call runs on the IpManager the
\* service holds now.
ServiceGetPublicIp(c, s) ==
    /\ calls[c].pc \in Settled
    /\ LET b == heap.services[s].mgr
           e == getPublicIpEnter(ManagerConfig(heap.bundles[b].config),
                                 heap.bundles[b].cache["IpManager"], now)
       IN  /\ calls' = [calls EXCEPT ![c] = e.call]
           /\ heap' = [heap EXCEPT !.bundles[b].cache["IpManager"] = e.cache,
                                   !.bound[c] = b,
                                   !.late = @ \ {c}]
           /\ lastOp' = NoOp
    /\ UNCHANGED <<mgrs, config, netAvailable, now, ticks, cache, rt, svc>>

\* The response of a provider arrives at the call, which runs in the
\* IpManager it was started on.  heap.late records the calls that went on
\* after their service had replaced its managers.
ServiceGetPublicIpRespond(c) ==
    /\ calls[c].pc = "await"
    /\ calls[c].op = "getPublicIp"
    /\ heap.bound[c] # 0
    /\ \E resp \in ServiceIpResponses :
          LET b == heap.bound[c]
              r == getPublicIpResume(ManagerConfig(heap.bundles[b].config), netAvailable,
                                     heap.bundles[b].cache["IpManager"], now, calls[c], resp)
          IN  /\ calls' = [calls EXCEPT ![c] = r.call]
              /\ heap' = [heap EXCEPT !.bundles[b].cache["IpManager"] = r.cache,
                                      !.late = IF Retired(b) THEN @ \cup {c} ELSE @]
    /\ lastOp' = NoOp
    /\ UNCHANGED <<mgrs, config, netAvailable, now, ticks, cache, rt, svc>>

InitInstances ==
    /\ mgrs = Managers
    /\ config = ManagerConfig(NetworkServiceConfig(Undefined))
    /\ netAvailable = TRUE
    /\ now = 0
    /\ ticks = 0
    /\ cache = [m \in Managers |-> EmptyMap]
    /\ calls = [c \in Calls |-> Idle]
    /\ lastOp = NoOp
    /\ rt = RetryIdle
    /\ svc = SvcIdle
    /\ heap = HeapEmpty

NextInstances ==
    \/ GetInstance
    \/ CreateInstance
    \/ \E s \in Services : UpdateConfig(s)
    \/ \E c \in Calls, s \in Services : ServiceGetPublicIp(c, s)
    \/ \E c \in Calls : ServiceGetPublicIpRespond(c)

SpecInstances == InitInstances /\ [][NextInstances]_vars

(***************************************************************************)
(* NetworkRoutes: GET /full.                                               *)
(***************************************************************************)
\* createErrorResponse(error)
createErrorResponse(error, t) == ApiResponse(FALSE, Null, error, t)

\* NetworkRoutes.getFullInfo once the promise of getFullNetworkInfo has
\* settled with outcome: res.json sends with the default status, 200.
routeGetFullInfo(outcome, t) ==
    IF outcome.ok
    THEN [status |-> 200, body |-> outcome.value]
    ELSE [status |-> 500, body |-> createErrorResponse(ErrorMessage(outcome), t)]

\* The handler of GET /full resumes after getFullNetworkInfo has returned:
\* the promise of an async function that returns is fulfilled.
RouteFullInfoRespond ==
    /\ svc.op = "getFullNetworkInfo"
    /\ svc.pc = "done"
    /\ lastOp = NoOp
    /\ LET r == routeGetFullInfo(Ok(svc.result), now)
       IN  lastOp' = [op |-> "GET /full", status |-> r.status, body |-> r.body]
    /\ UNCHANGED <<mgrs, config, netAvailable, now, ticks, cache, calls, rt, svc, heap>>

\* The requests to GET /full of a server whose service holds three managers.
NextRoutes ==
    \/ FullInfoStart
    \/ FullInfoSettle
    \/ \E c \in Calls : SvcIpRespond(c)
    \/ \E c \in Calls : SvcLookupRespond(c)
    \/ \E c \in Calls : SvcLocRespond(c)
    \/ RouteFullInfoRespond

SpecRoutes == InitService /\ [][NextRoutes]_vars

(***************************************************************************)
(* Termination: the calls of one manager, or one retry, where every        *)
(* request is answered or times out, the operation given to retry settles  *)
(* and the timer of delay fires.                                           *)
(***************************************************************************)
InitTerminate ==
    /\ mgrs \in {{}, {"IpManager"}, {"LocationManager"}}
    /\ config \in Configs
    /\ netAvailable = TRUE
    /\ now = 0
    /\ ticks = 0
    /\ cache = [m \in Managers |-> EmptyMap]
    /\ calls = [c \in Calls |-> Idle]
    /\ lastOp = NoOp
    /\ rt \in IF mgrs = {} THEN {RetryCall(n, d) : n \in RetryArgs, d \in DelayArgs}
              ELSE {RetryIdle}
    /\ svc = SvcIdle
    /\ heap = HeapEmpty

NextTerminate ==
    \/ \E c \in Calls : GetPublicIpStart(c)
    \/ \E c \in Calls : GetPublicIpRespond(c)
    \/ \E c \in Calls : GetLocationStart(c)
    \/ \E c \in Calls : GetLocationLookupRespond(c)
    \/ \E c \in Calls : GetLocationRespond(c)
    \/ RetryStart
    \/ RetrySettle
    \/ RetryDelayElapsed

\* Every request made is answered or times out; the operation settles; the
\* timer fires.
FairTerminate ==
    /\ \A c \in Calls : WF_vars(GetPublicIpRespond(c))
    /\ \A c \in Calls : WF_vars(GetLocationLookupRespond(c))
    /\ \A c \in Calls : WF_vars(GetLocationRespond(c))
    /\ WF_vars(RetrySettle)
    /\ WF_vars(RetryDelayElapsed)

SpecTerminate == InitTerminate /\ [][NextTerminate]_vars /\ FairTerminate

(***************************************************************************)
(* Properties.                                                             *)
(***************************************************************************)
Resolves == {"getPublicIp", "getLocation"}
Providers(op) == IF op = "getPublicIp" THEN IpProviders ELSE LocProviders
AggregateError(op) == IF op = "getPublicIp" THEN AllIpFailed ELSE AllLocFailed
ManagerOf(op) == IF op = "getPublicIp" THEN "IpManager" ELSE "LocationManager"

\* The value a provider's response yields to a resolve, or NoResult when
\* the provider failed or answered nothing valid.
Yield(op, resp) ==
    IF resp.status # "resolved" THEN NoResult
    ELSE IF op = "getPublicIp"
         THEN LET x == ExtractIp(resp.data)
              IN  IF x.found /\ isValidIp(x.ip, netAvailable) THEN Ok(x.ip) ELSE NoResult
    ELSE IF Truthy(resp.data) /\ isValidLocationData(resp.data)
         THEN Ok(resp.data) ELSE NoResult

\* The call returned a value without a request to any provider.
ServedFromCache(k) == k.pc = "done" /\ k.contacted = <<>>

\* C1: a resolve that is not served from the cache contacts the providers of
\* its list in order, one at a time, moves on only after a provider failed or
\* answered nothing valid, stops at the first provider whose response is
\* valid and returns exactly that provider's value; no later provider is
\* contacted.
C1_FallbackOrder ==
    \A c \in Calls :
       LET k == calls[c]
       IN  (k.op \in Resolves /\ k.contacted # <<>>) =>
              /\ Len(k.contacted) = k.idx
              /\ k.idx <= Len(Providers(k.op))
              /\ \A i \in 1..Len(k.contacted) : k.contacted[i].url = Providers(k.op)[i]
              /\ (k.pc = "await" /\ k.idx > 1) => Yield(k.op, k.resp) = NoResult
              /\ (k.pc = "await" /\ k.idx = 1) => k.resp = NoResponse
              /\ k.pc = "done" => /\ Yield(k.op, k.resp) # NoResult
                                  /\ k.result = Yield(k.op, k.resp)
              /\ k.pc = "failed" => /\ k.idx = Len(Providers(k.op))
                                    /\ Yield(k.op, k.resp) = NoResult

\* The first provider failed, the second answered a valid address: two
\* requests, the third provider never contacted.
C1_Witness ==
    \E c \in Calls :
       /\ calls[c].op = "getPublicIp"
       /\ calls[c].pc = "done"
       /\ Len(calls[c].contacted) = 2
       /\ calls[c].result = Ok(Str(IpB))

KeyedResolve(k) ==
    k.op = "getPublicIp" \/ (k.op = "getLocation" /\ Truthy(k.param))

\* C3: with caching enabled, a resolve that finds a live entry under its key
\* returns the entry's value and issues no request at all.
C3_CacheHit ==
    \A c \in Calls :
       LET k == calls[c]
       IN  ( /\ config.cache.enabled
             /\ KeyedResolve(k)
             /\ k.seen # NoEntry
             /\ k.age <= k.seen.ttl ) =>
              /\ k.pc = "done"
              /\ k.result = Ok(k.seen.data)
              /\ k.contacted = <<>>
              /\ ~k.lookup

\* A location resolve for a given address was answered from a live entry.
C3_Witness ==
    \E c \in Calls :
       /\ calls[c].op = "getLocation"
       /\ Truthy(calls[c].param)
       /\ calls[c].seen # NoEntry
       /\ calls[c].age <= calls[c].seen.ttl
       /\ calls[c].result = Ok(LocationData(IpA, <<"X">>))

\* The Map holds an entry under key that a lookup at time t would serve.
Live(map, key, t) == MapHas(map, key) /\ t - map[key].timestamp <= map[key].ttl

\* The step is the call of a resolve by task c.
Called(c) == calls[c].pc \in Settled /\ calls'[c] # calls[c]

\* C4 as stated: with caching enabled, getLocation() without an address,
\* called while a live entry exists for the public address of the machine,
\* returns that entry's value at once and makes no external request.
C4_Original ==
    [][ \A c \in Calls :
           ( /\ Called(c)
             /\ calls'[c].op = "getLocation"
             /\ ~Truthy(calls'[c].param)
             /\ config.cache.enabled
             /\ Live(cache["LocationManager"], LocationKey(PublicAddress), now) ) =>
              /\ calls'[c].pc = "done"
              /\ calls'[c].result =
                    Ok(cache["LocationManager"][LocationKey(PublicAddress)].data)
              /\ ~calls'[c].lookup
              /\ calls'[c].contacted = <<>> ]_vars

\* C5: a cache lookup serves the entry it meets exactly when the entry's age
\* is at most its ttl (age = ttl is served, age = ttl + 1 is not), so every
\* value returned from a cache was stored at most ttl ago.
C5_ServedWithinTtl ==
    /\ \A c \in Calls :
          LET k == calls[c]
          IN  /\ (k.op \in Resolves /\ ServedFromCache(k)) =>
                    /\ k.seen # NoEntry
                    /\ k.age <= k.seen.ttl
                    /\ k.result = Ok(k.seen.data)
              /\ (k.op \in Resolves /\ k.seen # NoEntry) =>
                    (ServedFromCache(k) <=> k.age <= k.seen.ttl)
    /\ lastOp.op = "getInterfaces" =>
          /\ ~lastOp.os => /\ lastOp.seen # NoEntry
                           /\ lastOp.age <= lastOp.seen.ttl
                           /\ lastOp.result = lastOp.seen.data
          /\ lastOp.seen # NoEntry => (~lastOp.os <=> lastOp.age <= lastOp.seen.ttl)

\* An entry aged exactly its ttl was served.
C5_Witness ==
    \E c \in Calls :
       /\ calls[c].op = "getPublicIp"
       /\ ServedFromCache(calls[c])
       /\ calls[c].seen # NoEntry
       /\ calls[c].age = calls[c].seen.ttl

\* C6: a lookup that immediately follows the store of its key returns the
\* stored value; a lookup made when more than the ttl has elapsed returns
\* absent and deletes the entry, and the call that made it goes to a provider
\* (getInterfaces: to the OS) again.
C6_RoundTrip ==
    /\ \A c \in Calls :
          LET k == calls[c]
          IN  (k.op \in Resolves /\ k.seen # NoEntry) =>
                 /\ k.age = 0 => (ServedFromCache(k) /\ k.result = Ok(k.seen.data))
                 /\ k.age > k.seen.ttl => (~k.kept /\ k.contacted # <<>>)
    /\ (lastOp.op = "getInterfaces" /\ lastOp.seen # NoEntry) =>
          /\ lastOp.age = 0 => (~lastOp.os /\ lastOp.result = lastOp.seen.data)
          /\ lastOp.age > lastOp.seen.ttl =>
                /\ lastOp.os
                /\ cache["NetworkManager"][InterfacesKey].timestamp = now

\* A location lookup met an entry older than its ttl.
C6_Witness ==
    \E c \in Calls :
       /\ calls[c].op = "getLocation"
       /\ calls[c].seen # NoEntry
       /\ calls[c].age > calls[c].seen.ttl
       /\ ~calls[c].kept
       /\ calls[c].contacted # <<>>

\* C7: with cache.enabled false every cache Map is empty in every state, no
\* lookup meets an entry, and every resolve that reaches its cache lookup and
\* every getInterfaces call goes to its source.
C7_DisabledCache ==
    ~config.cache.enabled =>
       /\ \A m \in Managers : cache[m] = EmptyMap
       /\ \A c \in Calls :
             /\ calls[c].seen = NoEntry
             /\ calls[c].pc = "done" => calls[c].contacted # <<>>
             /\ (calls[c].op = "getPublicIp" /\ calls[c].pc # "idle") =>
                   calls[c].contacted # <<>>
             /\ (calls[c].op = "getLocation" /\ calls[c].target # Undefined
                    /\ LocationManager_isValidIp(calls[c].target)) =>
                   calls[c].contacted # <<>>
       /\ lastOp.op = "getInterfaces" => lastOp.os

\* With the cache disabled two calls have returned, each after a request.
C7_Witness ==
    /\ ~config.cache.enabled
    /\ \A c \in Calls : calls[c].pc = "done" /\ calls[c].contacted # <<>>

\* C8 as stated: clearCache(key) removes exactly the entry under key and
\* leaves every other entry as it was, clearCache() removes all entries, and
\* a resolve called right after the clear of its key contacts its source.
C8_Original ==
    [][ /\ \A m \in Managers :
              (lastOp'.op = "clearCache" /\ lastOp'.mgr = m) =>
                 cache'[m] = IF lastOp'.key = Undefined THEN EmptyMap
                             ELSE MapDelete(cache[m], lastOp'.key.s)
        /\ \A c \in Calls :
              ( /\ lastOp.op = "clearCache"
                /\ Called(c)
                /\ calls'[c].op = "getPublicIp"
                /\ lastOp.key \in {Undefined, Str(PublicIpKey)} ) =>
                 calls'[c].contacted # <<>> ]_vars

\* C9: clearCache is idempotent: a clear that directly follows the same clear
\* of the same manager changes nothing.
C9_ClearIdempotent ==
    [][ \A m \in Managers :
           ( /\ lastOp.op = "clearCache"
             /\ lastOp'.op = "clearCache"
             /\ lastOp.mgr = m
             /\ lastOp'.mgr = m
             /\ lastOp'.key = lastOp.key ) => cache' = cache ]_vars

\* A clear of one key, with another entry in the Map, found nothing to
\* remove: the key had no entry, or had just been cleared.
C9_Witness ==
    /\ lastOp.op = "clearCache"
    /\ Truthy(lastOp.key)
    /\ lastOp.removed = 0
    /\ cache[lastOp.mgr] # EmptyMap

\* Every invocation of the operation made so far has failed.
AllRejected(r) == \A i \in 1..Len(r.outcomes) : r.outcomes[i].status = "rejected"

\* C10: for maxRetries >= 1, retry of an operation that fails every time
\* invokes it exactly maxRetries times and then rejects with the very error
\* of the last invocation; it never invokes the operation more often, and
\* with maxRetries = 1 it waits for no retry.
C10_RetryExhaustion ==
    rt.maxRetries >= 1 =>
       /\ rt.invocations <= rt.maxRetries
       /\ rt.pc = "rejected" =>
             /\ rt.invocations = rt.maxRetries
             /\ Len(rt.outcomes) = rt.maxRetries
             /\ AllRejected(rt)
             /\ rt.result = Thrown(rt.outcomes[rt.maxRetries].error)
       /\ (Len(rt.outcomes) = rt.maxRetries /\ AllRejected(rt)) => rt.pc = "rejected"
       /\ (AllRejected(rt) /\ rt.pc \in {"resolved", "rejected"}) => rt.pc = "rejected"
       /\ rt.maxRetries = 1 => rt.delays = <<>>

\* Three failing invocations, the last with another error than the first.
C10_Witness ==
    /\ rt.pc = "rejected"
    /\ rt.maxRetries = 3
    /\ rt.invocations = 3
    /\ rt.outcomes[1].error # rt.outcomes[3].error
    /\ rt.result = Thrown(ErrorObject("Always fails"))

RECURSIVE SumSeq(_)
SumSeq(q) == IF q = <<>> THEN 0 ELSE q[1] + SumSeq(Tail(q))

\* C11: the waits of retry are delayMs, 2 * delayMs, 4 * delayMs, ... in this
\* order, one after each failed attempt that is not the last and none after
\* the last: when retry with maxRetries = n >= 1 rejects it has waited
\* n - 1 times, delayMs * (2^(n-1) - 1) in total.
C11_Backoff ==
    /\ \A i \in 1..Len(rt.delays) :
          rt.delays[i] = IF i = 1 THEN rt.delayMs ELSE 2 * rt.delays[i - 1]
    /\ rt.pc = "waiting" => /\ Len(rt.delays) = Len(rt.outcomes)
                            /\ Len(rt.outcomes) < rt.maxRetries
    /\ rt.pc \in {"calling", "resolved"} => Len(rt.delays) = rt.invocations - 1
    /\ (rt.pc = "rejected" /\ rt.maxRetries >= 1) =>
          /\ Len(rt.delays) = rt.maxRetries - 1
          /\ (rt.maxRetries = 1 => SumSeq(rt.delays) = 0)
          /\ (rt.maxRetries = 2 => SumSeq(rt.delays) = rt.delayMs)
          /\ (rt.maxRetries = 3 => SumSeq(rt.delays) = 3 * rt.delayMs)
          /\ (rt.maxRetries = 4 => SumSeq(rt.delays) = 7 * rt.delayMs)

\* Three failed attempts with a base delay of 100 ms: 100 + 200 = 300 ms.
C11_Witness ==
    /\ rt.pc = "rejected"
    /\ rt.maxRetries = 3
    /\ rt.delayMs = 100
    /\ rt.delays = <<100, 200>>
    /\ SumSeq(rt.delays) = 300

\* C12: retry returns the value of the first invocation that succeeds and
\* does not invoke the operation again: a success is always the last
\* invocation made, and when invocation j is the first success there have
\* been exactly j invocations and j - 1 waits.
C12_FirstSuccess ==
    /\ \A i \in 1..Len(rt.outcomes) :
          rt.outcomes[i].status = "resolved" =>
             /\ i = Len(rt.outcomes)
             /\ rt.pc = "resolved"
             /\ rt.invocations = i
             /\ Len(rt.delays) = i - 1
             /\ rt.result = Ok(rt.outcomes[i].value)
    /\ rt.pc = "resolved" =>
          /\ rt.outcomes # <<>>
          /\ rt.outcomes[Len(rt.outcomes)].status = "resolved"

\* The first attempt failed, the second succeeded.
C12_Witness ==
    /\ rt.pc = "resolved"
    /\ rt.invocations = 2
    /\ rt.outcomes[1].status = "rejected"
    /\ Len(rt.delays) = 1
    /\ rt.result = Ok(Str(<<"success">>))

\* The direct address of a request: req.ip, or the remote address of its
\* connection or socket.
DirectAddress(req) ==
    OrElse(OrElse(OrElse(Get(req, "ip"),
                         OptGet(Get(req, "connection"), "remoteAddress")),
                  OptGet(Get(req, "socket"), "remoteAddress")),
           OptGet(OptGet(Get(req, "connection"), "socket"), "remoteAddress"))

Header(req, name) == Get(Get(req, "headers"), name)

\* The first comma-separated element, trimmed, of an x-forwarded-for value
\* that is a string or a non-empty list of strings.
FirstForwarded(fwd) ==
    Trim(Split(IF fwd.t = "array" THEN fwd.items[1].s ELSE fwd.s, ",")[1])

\* The header names an address: its first element is not empty.
HasForwarded(fwd) ==
    /\ fwd.t = "string" \/ (fwd.t = "array" /\ fwd.items # <<>>)
    /\ FirstForwarded(fwd) # <<>>

\* C13 as stated: '::1' gives '127.0.0.1'; '::ffff:<v4>' gives '<v4>'; with
\* no direct address an x-forwarded-for value gives its first comma-separated
\* element, trimmed; with no address anywhere the result is 'unknown'.
C13_Original ==
    lastOp.op = "getClientIp" =>
       LET req == lastOp.req
           direct == DirectAddress(req)
           fwd == Header(req, "x-forwarded-for")
       IN  /\ direct = Str(Localhost6) => lastOp.result = Ok(Str(Localhost4))
           /\ direct = Str(MappedPrefix \o IpA) => lastOp.result = Ok(Str(IpA))
           /\ (~Truthy(direct) /\ HasForwarded(fwd)) =>
                 lastOp.result = Ok(Str(FirstForwarded(fwd)))
           /\ ( /\ ~Truthy(direct)
                /\ fwd = Undefined
                /\ Header(req, "x-real-ip") = Undefined
                /\ Header(req, "x-client-ip") = Undefined ) =>
                 lastOp.result = Ok(Str(Unknown))

\* C14 as stated: getClientIp throws for no request metadata; it returns a
\* string, and 'unknown' when the request carries no usable address.
C14_Original ==
    lastOp.op = "getClientIp" =>
       /\ lastOp.result.ok
       /\ lastOp.result.value.t = "string"
       /\ ( /\ ~Truthy(DirectAddress(lastOp.req))
            /\ ~HasForwarded(Header(lastOp.req, "x-forwarded-for"))
            /\ Header(lastOp.req, "x-real-ip") = Undefined
            /\ Header(lastOp.req, "x-client-ip") = Undefined ) =>
             lastOp.result = Ok(Str(Unknown))

\* C15 as stated: getLocation(ip) with a given ip that is no valid IPv4 or
\* IPv6 literal rejects with 'Invalid IP address: <ip>' before any request
\* is made, and stores nothing in the cache.
C15_Original ==
    \A c \in Calls :
       LET k == calls[c]
       IN  (k.op = "getLocation" /\ Truthy(k.param) /\ isIP(k.param.s) = 0) =>
              /\ k.pc = "failed"
              /\ k.result = InvalidIp(k.param)
              /\ k.contacted = <<>>
              /\ ~k.lookup
              /\ ~MapHas(cache["LocationManager"], LocationKey(k.param.s))

\* The decimal strings of 0..255.
CanonicalOctets == {NumToString(n) : n \in 0..255}

\* Exactly four dot-separated groups, each the canonical text of an octet.
CanonicalQuad(ip) ==
    LET g == Split(ip, ".")
    IN  Len(g) = 4 /\ \A i \in 1..4 : g[i] \in CanonicalOctets

HasColon(ip) == \E i \in 1..Len(ip) : ip[i] = ":"

\* C16: on text without a colon, isValidIp (with the net module and in the
\* fallback) accepts exactly the four dot-separated canonical decimal groups
\* in [0,255]: an octet above 255, a leading zero, three or five groups, an
\* empty or non-digit group are all rejected.
C16_Ipv4Validation ==
    (lastOp.op = "isValidIp" /\ ~HasColon(lastOp.ip)) =>
       (lastOp.result <=> CanonicalQuad(lastOp.ip))

\* The fallback accepted a quad with the octets 255 and 0.
C16_Witness ==
    /\ lastOp.op = "isValidIp"
    /\ ~netAvailable
    /\ lastOp.ip = <<"2", "5", "5", ".", "0", ".", "0", ".", "2", "5", "5">>
    /\ lastOp.result

\* C17 as stated: on colon-separated text the fallback validation accepts
\* exactly the valid colon-hex IPv6 literals: every valid literal with at
\* most one '::' is accepted, and no text that is not a valid literal is.
C17_Original ==
    (lastOp.op = "isValidIp" /\ ~netAvailable /\ HasColon(lastOp.ip)) =>
       (lastOp.result <=> isIP(lastOp.ip) = 6)

\* getFullNetworkInfo has returned / healthCheck has returned.
FullInfoDone == svc.op = "getFullNetworkInfo" /\ svc.pc = "done"
HealthDone == svc.op = "healthCheck" /\ svc.pc = "done"

C19_BestEffort ==
    /\ (svc.op = "healthCheck" /\ svc.pc = "probing") =>
          \E k \in Probes : ~svc.probes[k].settled
    /\ HealthDone =>
          /\ \A k \in Probes : svc.probes[k].settled
          /\ svc.result.success
          /\ svc.result.error = Null
          /\ svc.result.data =
                [ipServices |-> svc.probes["ipServices"].resp.status = "resolved",
                 geolocationServices |->
                    svc.probes["geolocationServices"].resp.status = "resolved",
                 networkInfo |-> TRUE]

\* The probe of the IP services failed and the probe of the geolocation
\* services succeeded.
C19_Witness ==
    /\ HealthDone
    /\ svc.probes["ipServices"].resp = Rejected
    /\ svc.probes["geolocationServices"].resp.status = "resolved"
    /\ svc.result.success
    /\ ~svc.result.data.ipServices
    /\ svc.result.data.geolocationServices

\* The cache key under which a resolution of getFullNetworkInfo stores.
TaskKey(c) ==
    IF c = IpTask THEN PublicIpKey ELSE LocationKey(calls[c].target.s)
TaskManager(c) == IF c = IpTask THEN "IpManager" ELSE "LocationManager"

\* A resolution that was pending when getFullNetworkInfo failed is still in
\* flight, or it has ended the way its own chain ends: with a provider's
\* value, which its manager's cache holds when caching is enabled, or with
\* its own error: its providers are exhausted, or the public address that
\* the location needs could not be had.
SiblingRuns(c) ==
    LET k == calls[c]
    IN  /\ k.pc \in {"lookup", "await", "done", "failed"}
        /\ k.pc = "await" => /\ k.idx \in 1..Len(Providers(k.op))
                             /\ Len(k.contacted) = k.idx
        /\ k.pc = "done" =>
              /\ k.contacted # <<>> => /\ k.resp.status = "resolved"
                                        /\ Yield(k.op, k.resp) = k.result
              /\ config.cache.enabled =>
                    /\ MapHas(cache[TaskManager(c)], TaskKey(c))
                    /\ cache[TaskManager(c)][TaskKey(c)].data = k.result.value
        /\ k.pc = "failed" =>
              \/ k.result = AggregateError(k.op) /\ k.idx = Len(Providers(k.op))
              \/ /\ k.op = "getLocation"
                 /\ k.contacted = <<>>
                 /\ k.result \in {LookupFailed, InvalidIp(k.target)}

\* Every resolution of getFullNetworkInfo has been started.
AllStarted ==
    /\ calls[IpTask].op = "getPublicIp"
    /\ calls[IpTask].pc \in {"await", "done", "failed"}
    /\ calls[LocTask].op = "getLocation"
    /\ calls[LocTask].pc \in {"lookup", "await", "done", "failed"}
    /\ svc.interfaces.t = "object"
    /\ config.cache.enabled => MapHas(cache["NetworkManager"], InterfacesKey)

C21_FirstFailure ==
    /\ [][\A c \in AggregateTasks :
             (svc.pc = "waiting" /\ calls[c].pc # "failed" /\ calls'[c].pc = "failed") =>
                \A o \in AggregateTasks \ {c} : calls[o].pc # "failed"]_vars
    /\ [][(svc.pc = "waiting" /\ svc'.pc = "done" /\ ~svc'.result.success) =>
             \E c \in AggregateTasks :
                /\ calls[c].pc = "failed"
                /\ \A o \in AggregateTasks \ {c} : calls[o].pc # "failed"
                /\ svc'.result.error = ErrorMessage(calls[c].result)]_vars
    /\ [][(FullInfoDone /\ svc'.pc = "done") => svc'.result = svc.result]_vars

\* The location failed first and the public address afterwards: the call
\* reported the location's error.
C21_Witness ==
    /\ FullInfoDone
    /\ svc.pending = {IpTask}
    /\ calls[IpTask].pc = "failed"
    /\ calls[LocTask].pc = "failed"
    /\ calls[LocTask].result = AllLocFailed
    /\ svc.result.error = ErrorMessage(AllLocFailed)

\* Caching is on in the configuration the managers b hold.
CachingOn(b) == ManagerConfig(heap.bundles[b].config).cache.enabled

\* C22: updateConfig gives the service new managers that hold the new
\* configuration and empty caches and leaves every existing manager, its
\* configuration and its cache as they were; a call in flight goes on in
\* the managers it was started on, under their unchanged configuration, and
\* stores its result in their cache only; and a call started on managers
\* whose cache is empty, as after updateConfig, requests a provider.
C22_FreshManagers ==
    /\ [][lastOp'.op = "updateConfig" =>
             LET s == lastOp'.service
                 b == heap'.services[s].mgr
             IN  /\ b \notin Bundles
                 /\ heap'.bundles[b].config = heap'.services[s].config
                 /\ \A m \in Managers : heap'.bundles[b].cache[m] = EmptyMap
                 /\ \A o \in Bundles : heap'.bundles[o] = heap.bundles[o]
                 /\ heap'.bound = heap.bound
                 /\ calls' = calls]_vars
    /\ [][\A o \in Bundles : heap'.bundles[o].config = heap.bundles[o].config]_vars
    /\ [][\A c \in Calls :
             (calls[c].pc = "await" /\ calls'[c] # calls[c]) =>
                LET b == heap.bound[c]
                IN  /\ heap'.bound[c] = b
                    /\ heap'.services = heap.services
                    /\ \A o \in Bundles \ {b} : heap'.bundles[o] = heap.bundles[o]
                    /\ (calls'[c].pc = "done" /\ CachingOn(b)) =>
                          /\ MapHas(heap'.bundles[b].cache["IpManager"], PublicIpKey)
                          /\ heap'.bundles[b].cache["IpManager"][PublicIpKey].data =
                                calls'[c].result.value
                    /\ ~CachingOn(b) => heap'.bundles[b].cache = heap.bundles[b].cache]_vars
    /\ [][\A c \in Calls :
             (calls[c].pc \in Settled /\ calls'[c] # calls[c]) =>
                LET b == heap'.bound[c]
                IN  /\ \E s \in Services : heap.services[s].mgr = b
                    /\ heap.bundles[b].cache["IpManager"] = EmptyMap =>
                          /\ calls'[c].pc = "await"
                          /\ calls'[c].contacted # <<>>]_vars

\* A call went on after updateConfig and completed: its value is in the
\* cache of the managers it was started on, which had caching on, while the
\* service's new managers, with another configuration, hold nothing.
C22_Witness ==
    \E c \in Calls :
       /\ c \in heap.late
       /\ calls[c].pc = "done"
       /\ LET b == heap.bound[c]
              n == heap.services[heap.bundles[b].owner].mgr
          IN  /\ n # b
              /\ CachingOn(b)
              /\ ~CachingOn(n)
              /\ MapHas(heap.bundles[b].cache["IpManager"], PublicIpKey)
              /\ heap.bundles[n].cache["IpManager"] = EmptyMap

\* The sections of the configuration and the settings of a section.
Sections == {"api", "cache", "features"}
Settings(section) == (DOMAIN section) \ {"t"}

\* partial names the setting: partial.section.setting is present.
Names(partial, section, setting) == setting \in Settings(Get(partial, section))

\* C23 as stated: updateConfig(partial) changes only the settings named in
\* partial; every setting that partial does not name keeps the value it had
\* (updateConfig({ cache: { ttl } }) leaves cache.enabled as it was).
C23_Original ==
    [][lastOp'.op = "updateConfig" =>
          LET old == heap.services[lastOp'.service].config
              new == heap'.services[lastOp'.service].config
          IN  \A section \in Sections :
                 \A setting \in Settings(old[section]) :
                    ~Names(lastOp'.partial, section, setting) =>
                       Get(Get(new, section), setting) = old[section][setting]]_vars

\* C24: getInstance constructs the singleton on its first call and returns
\* that same instance, unchanged, on every later call whatever argument it
\* is given; createInstance returns an instance that did not exist before,
\* with managers of its own whose caches are empty, and leaves the singleton
\* and every other instance and manager as they were; no two instances hold
\* the same managers.
C24_Instances ==
    /\ [][lastOp'.op = "getInstance" =>
             IF heap.singleton # 0
             THEN heap' = heap /\ lastOp'.result = heap.singleton
             ELSE /\ lastOp'.result = heap'.singleton
                  /\ heap'.singleton \notin Services
                  /\ heap'.services[heap'.singleton].config =
                        NetworkServiceConfig(lastOp'.arg)]_vars
    /\ [][heap.singleton # 0 => heap'.singleton = heap.singleton]_vars
    /\ [][lastOp'.op = "createInstance" =>
             LET r == lastOp'.result
             IN  /\ r \notin Services
                 /\ r \in 1..Len(heap'.services)
                 /\ heap'.singleton = heap.singleton
                 /\ \A s \in Services : heap'.services[s] = heap.services[s]
                 /\ \A b \in Bundles : heap'.bundles[b] = heap.bundles[b]
                 /\ heap'.services[r].mgr \notin Bundles
                 /\ heap'.services[r].config = NetworkServiceConfig(lastOp'.arg)
                 /\ \A m \in Managers :
                       heap'.bundles[heap'.services[r].mgr].cache[m] = EmptyMap]_vars
    /\ [](\A s1 \in Services, s2 \in Services :
             s1 # s2 => heap.services[s1].mgr # heap.services[s2].mgr)

\* getInstance was given a configuration after the singleton existed and
\* returned the singleton, still with the defaults it was constructed with
\* and with the address its IpManager has cached, beside an instance made
\* by createInstance with another configuration and an empty cache.
C24_Witness ==
    /\ lastOp.op = "getInstance"
    /\ lastOp.arg # Undefined
    /\ lastOp.result = heap.singleton
    /\ Len(heap.services) = 2
    /\ heap.services[heap.singleton].config = NetworkServiceConfig(Undefined)
    /\ \E s \in Services :
          /\ s # heap.singleton
          /\ heap.services[s].config # NetworkServiceConfig(Undefined)
          /\ heap.bundles[heap.services[s].mgr].cache["IpManager"] = EmptyMap
    /\ MapHas(heap.bundles[heap.services[heap.singleton].mgr].cache["IpManager"],
              PublicIpKey)

\* C25 as stated: GET /full answers 500 with success = false and the error
\* message whenever a resolution of the full network information failed, and
\* answers 200 only when the retrieval succeeded.
C25_Original ==
    lastOp.op = "GET /full" =>
       /\ ~svc.result.success =>
             /\ lastOp.status = 500
             /\ ~lastOp.body.success
             /\ lastOp.body.error = svc.result.error
       /\ lastOp.status = 200 => svc.result.success

\* v is the address that the response of some provider yields, and it is valid.
ProvidedIp(v) ==
    /\ isValidIp(v, netAvailable)
    /\ \E r \in IpResponses : Yield("getPublicIp", r) = Ok(v)

\* v is the payload of the response of some geolocation provider, and it
\* is valid.
ProvidedLocation(v) ==
    /\ isValidLocationData(v)
    /\ \E ip \in LocationArgs :
          \E r \in LocResponses(ip) : r.status = "resolved" /\ r.data = v

\* C26: in every reachable state, under every interleaving of two calls
\* with clears and expiries, the value cached under 'public-ip' and every
\* value getPublicIp has returned came from a provider's response and passes
\* isValidIp, and every cached or returned location came from a provider's
\* response and passes isValidLocationData.
C26_ValidValues ==
    /\ MapHas(cache["IpManager"], PublicIpKey) =>
          ProvidedIp(cache["IpManager"][PublicIpKey].data)
    /\ \A key \in DOMAIN cache["LocationManager"] :
          ProvidedLocation(cache["LocationManager"][key].data)
    /\ \A c \in Calls :
          calls[c].pc = "done" =>
             /\ calls[c].op = "getPublicIp" => ProvidedIp(calls[c].result.value)
             /\ calls[c].op = "getLocation" => ProvidedLocation(calls[c].result.value)

\* The first provider gave nothing usable; the second answered text with a
\* line end, whose trimmed address was cached and returned.
C26_Witness ==
    \E c \in Calls :
       /\ calls[c].op = "getPublicIp"
       /\ calls[c].pc = "done"
       /\ Len(calls[c].contacted) = 2
       /\ calls[c].resp = Resolved(Str(Append(IpA, "\n")))
       /\ calls[c].result = Ok(Str(IpA))
       /\ MapHas(cache["IpManager"], PublicIpKey)
       /\ cache["IpManager"][PublicIpKey].data = Str(IpA)

\* How the attempt that got the response resp failed, or "none".
FailureKind(op, resp) ==
    IF resp.status = "rejected" THEN "transport error or timeout"
    ELSE IF Yield(op, resp).ok THEN "none"
    ELSE IF op = "getPublicIp" /\ ~ExtractIp(resp.data).found THEN "no value in the body"
    ELSE "failed validation"

FailureKinds == {"transport error or timeout", "no value in the body", "failed validation"}

\* C27: whatever the kind of failure of an attempt of a provider of the
\* list, the step that receives the response caches nothing, and the call
\* goes on to request the next provider of the list; after the last
\* provider it fails with the aggregate error, never with the failure of
\* the attempt.
C27_UniformFailure ==
    [][\A c \in Calls :
          (/\ calls[c].pc = "await"
           /\ calls'[c] # calls[c]
           /\ FailureKind(calls[c].op, calls'[c].resp) \in FailureKinds) =>
             LET k == calls[c]
                 list == Providers(k.op)
             IN  /\ cache' = cache
                 /\ IF k.idx < Len(list)
                    THEN /\ calls'[c].pc = "await"
                         /\ calls'[c].idx = k.idx + 1
                         /\ Len(calls'[c].contacted) = k.idx + 1
                         /\ calls'[c].contacted[k.idx + 1].url = list[k.idx + 1]
                         /\ calls'[c].result = k.result
                    ELSE /\ calls'[c].pc = "failed"
                         /\ calls'[c].result = AggregateError(k.op)]_vars

\* One call met a transport error and another an address that fails
\* validation: both wait for the second provider and nothing is cached.
C27_Witness ==
    /\ config.cache.enabled
    /\ calls[1].op = "getPublicIp" /\ calls[2].op = "getPublicIp"
    /\ calls[1].pc = "await" /\ calls[2].pc = "await"
    /\ calls[1].idx = 2 /\ calls[2].idx = 2
    /\ FailureKind("getPublicIp", calls[1].resp) = "transport error or timeout"
    /\ FailureKind("getPublicIp", calls[2].resp) = "failed validation"
    /\ cache["IpManager"] = EmptyMap

\* C28: a call that has to ask the providers always begins with the first
\* provider of its list, whatever earlier calls met, and a call that starts
\* takes nothing over from the call its task ran before: no response, no
\* result, no position in the list.
C28_NoHealthMemory ==
    /\ [][\A c \in Calls :
             (calls[c].pc # "await" /\ calls'[c].pc = "await") =>
                /\ calls'[c].idx = 1
                /\ Len(calls'[c].contacted) = 1
                /\ calls'[c].contacted[1].url = Providers(calls'[c].op)[1]]_vars
    /\ [][\A c \in Calls :
             (calls[c].pc \in Settled /\ calls'[c] # calls[c]) =>
                /\ calls'[c].resp = NoResponse
                /\ calls'[c].pc \in {"await", "lookup"} =>
                      /\ calls'[c].result = NoResult
                      /\ calls'[c].idx = Len(calls'[c].contacted)
                /\ calls'[c].pc = "done" =>
                      /\ calls'[c].contacted = <<>>
                      /\ calls'[c].result = Ok(calls'[c].seen.data)]_vars

\* A call has failed at every provider; another call of the same manager
\* is asking the first provider again.
C28_Witness ==
    /\ calls[1].op = "getPublicIp"
    /\ calls[1].pc = "failed"
    /\ calls[1].result = AllIpFailed
    /\ calls[2].op = "getPublicIp"
    /\ calls[2].pc = "await"
    /\ calls[2].contacted = <<Request(IpProviders[1], Undefined)>>
    /\ calls[2].resp = NoResponse

\* The requests a call has made: those to the providers of its list and
\* the public-address lookup.
RequestsMade(k) == Len(k.contacted) + (IF k.lookup THEN 1 ELSE 0)

\* C29: a getPublicIp or getLocation call asks each provider of its list at
\* most once, in order (at most 3 requests, and one more for the
\* public-address lookup of getLocation without an address), and retry
\* invokes its operation at most maxRetries times; and when every request
\* is answered or times out, every call that waits for a response ends with
\* a value or an error, and every retry that has started ends.
C29_Terminates ==
    /\ [](\A c \in Calls :
             LET k == calls[c]
             IN  k.op \in Resolves =>
                    /\ Len(k.contacted) <= Len(Providers(k.op))
                    /\ \A i \in 1..Len(k.contacted) :
                          k.contacted[i].url = Providers(k.op)[i]
                    /\ k.lookup => (k.op = "getLocation" /\ ~Truthy(k.param))
                    /\ RequestsMade(k) <= 3 + (IF k.lookup THEN 1 ELSE 0))
    /\ [](rt.invocations <= (IF rt.maxRetries > 0 THEN rt.maxRetries ELSE 0))
    /\ \A c \in Calls :
          (calls[c].pc \in {"lookup", "await"}) ~> (calls[c].pc \in {"done", "failed"})
    /\ (rt.pc \in {"calling", "waiting"}) ~> (rt.pc \in {"resolved", "rejected"})

\* getLocation without an address looked the public address up, asked its
\* three providers and failed.
C29_Witness ==
    \E c \in Calls :
       /\ calls[c].op = "getLocation"
       /\ calls[c].lookup
       /\ Len(calls[c].contacted) = 3
       /\ calls[c].pc = "failed"
       /\ calls[c].result = AllLocFailed

\* The text before the first colon: what the closing split(":")[0] keeps.
BeforeColon(s) == Split(s, ":")[1]

\* The address the precedence of C30 selects for a request, after the
\* normalisation of the direct address ('::1', the '::ffff:' prefix) and the
\* closing cut at the first colon: the direct address if there is one, else
\* the first element of x-forwarded-for, else x-real-ip, else x-client-ip,
\* else 'unknown'.
ByPrecedence(req) ==
    LET direct == DirectAddress(req)
        fwd == Header(req, "x-forwarded-for")
        real == Header(req, "x-real-ip")
        client == Header(req, "x-client-ip")
    IN  IF Truthy(direct)
        THEN IF direct = Str(Localhost6) THEN Localhost4
             ELSE IF StartsWith(direct.s, MappedPrefix)
             THEN BeforeColon(SubSeq(direct.s, Len(MappedPrefix) + 1, Len(direct.s)))
             ELSE BeforeColon(direct.s)
        ELSE IF HasForwarded(fwd) THEN BeforeColon(FirstForwarded(fwd))
        ELSE IF Truthy(real) THEN BeforeColon(real.s)
        ELSE IF Truthy(client) THEN BeforeColon(client.s)
        ELSE Unknown

\* C30 as stated: getClientIp resolves the address by fixed precedence, the
\* direct connection address, then the first element of x-forwarded-for, then
\* x-real-ip, then x-client-ip, then 'unknown'; a header is consulted only
\* when every source of higher precedence yielded no address.
C30_Original ==
    lastOp.op = "getClientIp" =>
       lastOp.result = Ok(Str(ByPrecedence(lastOp.req)))

\* C31 as stated: a direct address that is a valid IPv4 or IPv6 literal other
\* than '::1' and without the '::ffff:' prefix is returned exactly.
C31_Original ==
    lastOp.op = "getClientIp" =>
       LET direct == DirectAddress(lastOp.req)
       IN  ( /\ Truthy(direct)
             /\ isIP(direct.s) # 0
             /\ direct # Str(Localhost6)
             /\ ~StartsWith(direct.s, MappedPrefix) ) =>
              lastOp.result = Ok(direct)

\* The lookup request of a getLocation() call failed.
LookupRejected(k) ==
    k.op = "getLocation" /\ k.lookup /\ k.lookupResp.status = "rejected"

\* C32: when getLocation is called without a parameter and the request for
\* the machine's public address fails, the call rejects with 'Failed to get
\* public IP for location lookup', it contacts no geolocation provider, the
\* lookup is one request with no fallback, and the step leaves the cache as
\* it was.
C32_LookupFails ==
    /\ [](\A c \in Calls :
            LookupRejected(calls[c]) =>
               /\ calls[c].pc = "failed"
               /\ calls[c].result = LookupFailed
               /\ calls[c].contacted = <<>>
               /\ calls[c].target = Undefined)
    /\ [][\A c \in Calls :
            (calls[c].pc = "lookup" /\ calls'[c].lookupResp.status = "rejected") =>
               cache' = cache]_vars

\* A getLocation() call rejected at the lookup while the cache holds the
\* location another call resolved.
C32_Witness ==
    /\ LookupRejected(calls[1])
    /\ calls[1].pc = "failed"
    /\ MapHas(cache["LocationManager"], LocationKey(IpA))

\* The addresses a getLocation call can resolve: the caller's and the
\* machine's own.
LocatedAddresses == {IpA, PublicAddress}

\* C33: location cache entries are isolated per address.  Distinct addresses
\* have distinct keys and equal addresses the same key, every entry of the
\* cache lies under the key of the address its value was resolved for, and a
\* getLocation(a) call served from the cache returns the value of the entry
\* it met, which was resolved for a.
C33_Isolated ==
    /\ \A a \in LocatedAddresses, b \in LocatedAddresses :
          (LocationKey(a) = LocationKey(b)) <=> (a = b)
    /\ \A key \in DOMAIN cache["LocationManager"] :
          \E a \in LocatedAddresses :
             /\ key = LocationKey(a)
             /\ Get(cache["LocationManager"][key].data, "ip") = Str(a)
    /\ \A c \in Calls :
          (calls[c].op = "getLocation" /\ ServedFromCache(calls[c])) =>
             /\ calls[c].seen # NoEntry
             /\ calls[c].result = Ok(calls[c].seen.data)
             /\ Get(calls[c].result.value, "ip") = calls[c].target

\* getLocation(a) is served from the cache while the cache also holds the
\* location of the machine's own address.
C33_Witness ==
    /\ calls[1].op = "getLocation"
    /\ ServedFromCache(calls[1])
    /\ calls[1].target = Str(IpA)
    /\ MapHas(cache["LocationManager"], LocationKey(PublicAddress))
    /\ MapHas(cache["LocationManager"], LocationKey(IpA))

\* The entry under key of manager m is older than its ttl.
Expired(m, key) == now - cache[m][key].timestamp > cache[m][key].ttl

\* The step is one in which task c reaches the cache lookup of a resolve:
\* the call of getPublicIp or getLocation(ip), or the arrival of the public
\* address that getLocation() waited for.
LookupStep(c) ==
    calls[c].pc \in Settled \cup {"lookup"} /\ calls'[c] # calls[c]

\* The lookup of that step is of key in the cache of manager m.
LookupStepOf(c, m, key) ==
    /\ LookupStep(c)
    /\ \/ /\ m = "IpManager"
          /\ calls'[c].op = "getPublicIp"
          /\ key = PublicIpKey
       \/ /\ m = "LocationManager"
          /\ calls'[c].op = "getLocation"
          /\ calls'[c].pc \in {"await", "done"}
          /\ key = LocationKey(calls'[c].target.s)

\* C34: a cache lookup of key k changes nothing except deleting k's own
\* entry when that entry is expired.  A hit leaves the entry, its timestamp
\* and its ttl as they were; no entry of another key is changed or removed;
\* the passing of time removes nothing; an entry leaves the Map only by a
\* lookup of its own key after it expired or by clearCache.
C34_LookupFrame ==
    [][ \A m \in Managers :
          /\ \A c \in Calls :
                LookupStep(c) =>
                   \/ cache'[m] = cache[m]
                   \/ \E key \in DOMAIN cache[m] :
                         /\ LookupStepOf(c, m, key)
                         /\ Expired(m, key)
                         /\ cache'[m] = MapDelete(cache[m], key)
          /\ \A key \in DOMAIN cache[m] :
                key \notin DOMAIN cache'[m] =>
                   \/ lastOp'.op = "clearCache"
                   \/ Expired(m, key) /\ \E c \in Calls : LookupStepOf(c, m, key)
          /\ (lastOp'.op = "getInterfaces" /\ cache'[m] # cache[m]) =>
                /\ m = "NetworkManager"
                /\ ~Live(cache[m], InterfacesKey, now)
          /\ now' # now => cache'[m] = cache[m] ]_vars

\* getLocation() was served, one tick after it was stored, from the entry of
\* the machine's own address, while the expired entry of another address is
\* still in the Map.
C34_Witness ==
    LET map == cache["LocationManager"]
    IN  /\ MapHas(map, LocationKey(IpA))
        /\ Expired("LocationManager", LocationKey(IpA))
        /\ MapHas(map, LocationKey(PublicAddress))
        /\ \E c \in Calls :
              /\ calls[c].op = "getLocation"
              /\ ServedFromCache(calls[c])
              /\ calls[c].target = Str(PublicAddress)
              /\ calls[c].age = 1
              /\ now - map[LocationKey(PublicAddress)].timestamp = 1

\* C35: getInterfaces caches the enumerated interfaces for a fixed 60000 ms
\* regardless of the configured cache.ttl.  With caching enabled an
\* enumeration stores its result with the time of the enumeration and a ttl
\* of 60000; a call that finds this entry at most 60000 ms old returns it
\* without asking the OS and leaves it as it is; the first call that finds
\* it older asks the OS again.
C35_FixedTtl ==
    /\ [](\A key \in DOMAIN cache["NetworkManager"] :
             /\ key = InterfacesKey
             /\ cache["NetworkManager"][key].ttl = InterfacesTtl
             /\ cache["NetworkManager"][key].timestamp <= now)
    /\ [][ (lastOp'.op = "getInterfaces" /\ config.cache.enabled) =>
             /\ MapHas(cache'["NetworkManager"], InterfacesKey)
             /\ lastOp'.result = cache'["NetworkManager"][InterfacesKey].data
             /\ lastOp'.os => cache'["NetworkManager"][InterfacesKey].timestamp = now
             /\ MapHas(cache["NetworkManager"], InterfacesKey) =>
                   IF now - cache["NetworkManager"][InterfacesKey].timestamp <= InterfacesTtl
                   THEN ~lastOp'.os /\ cache' = cache
                   ELSE lastOp'.os ]_vars

\* With a configured ttl of 1 ms a call exactly 60000 ms after the
\* enumeration was answered without asking the OS.
C35_Witness ==
    /\ lastOp.op = "getInterfaces"
    /\ config.cache.enabled
    /\ config.cache.ttl # InterfacesTtl
    /\ ~lastOp.os
    /\ lastOp.age = InterfacesTtl

\* C36 as stated: after clearCache() the cache holds no entry until a
\* resolve that started after the clear stores one; a resolve that was in
\* flight when the clear ran does not repopulate the cache with its result.
\* Stated for the step that follows the clear: when the response of a call
\* that was awaiting a provider during the clear arrives, the cache stays
\* empty.
C36_Original ==
    [][ \A m \in Managers, c \in Calls :
          ( /\ lastOp.op = "clearCache"
            /\ lastOp.mgr = m
            /\ ~Truthy(lastOp.key)
            /\ calls[c].pc = "await"
            /\ calls'[c] # calls[c] ) =>
             cache'[m] = EmptyMap ]_vars

\* The cache key of a call that is awaiting a provider.
KeyOf(k) == IF k.op = "getPublicIp" THEN PublicIpKey ELSE LocationKey(k.target.s)

\* C37 as stated: with caching enabled, of two overlapping resolves of the
\* same cache key at most one contacts providers, so no two requests for the
\* same key are in flight together.
C37_Original ==
    config.cache.enabled =>
       \A c \in Calls, d \in Calls :
          ( /\ c # d
            /\ calls[c].pc = "await"
            /\ calls[d].pc = "await"
            /\ calls[c].op = calls[d].op ) =>
             KeyOf(calls[c]) # KeyOf(calls[d])

\* C38 as stated: for every value of maxRetries, 0 and negative values
\* included, retry invokes the operation at least once, and whenever it
\* rejects, the rejection value is an error that the operation threw.
C38_Original ==
    rt.pc \in {"resolved", "rejected"} =>
       /\ rt.invocations >= 1
       /\ rt.pc = "rejected" =>
             \E i \in 1..Len(rt.outcomes) :
                /\ rt.outcomes[i].status = "rejected"
                /\ rt.result = Thrown(rt.outcomes[i].error)

\* C39 as stated: in every successful getFullNetworkInfo result the location
\* was resolved for the public address reported in publicIp, and the two
\* resolutions share one public-address lookup: the location resolution
\* makes no lookup of its own beside the requests of the address resolution.
C39_Original ==
    (FullInfoDone /\ svc.result.success) =>
       /\ Get(svc.result.data.location, "ip") = svc.result.data.publicIp
       /\ calls[LocTask].target = svc.result.data.publicIp
       /\ ~(calls[LocTask].lookup /\ calls[IpTask].contacted # <<>>)
====
